---------------------------- MODULE Spec2Model ----------------------------
(***************************************************************************)
(* A model of the finite-diff library: the coefficient tables, the         *)
(* gradient / Jacobian / Hessian engines, the comparison routines and the  *)
(* flatten / unflatten helpers.                                            *)
(*                                                                         *)
(* double values are modelled as exact rationals <<p, q>> (q > 0, lowest   *)
(* terms): the model states what the code computes in exact arithmetic,    *)
(* and says nothing about floating-point rounding.                         *)
(* Eigen vectors are sequences (entry k of the code is entry k + 1 here);  *)
(* Eigen matrices are records [rows, cols, data] whose data is the         *)
(* column-major storage Eigen uses by default.                             *)
(***************************************************************************)
EXTENDS Integers, Sequences, FiniteSets, TLC

(***************************************************************************)
(* Bounds of the model.                                                    *)
(***************************************************************************)
\* Largest dimension n of an evaluation point.
MaxN == 2
\* Largest row count and column count of a matrix compared or flattened,
\* and largest length of a vector compared.
MaxDim == 2
\* The longest vector unflatten is called with.
MaxLen == 4

(***************************************************************************)
(* Exact arithmetic on double values.                                      *)
(***************************************************************************)
IAbs(k) == IF k < 0 THEN -k ELSE k

RECURSIVE GCD(_, _)
GCD(a, b) == IF b = 0 THEN a ELSE GCD(b, a % b)

\* The rational p / q in lowest terms with a positive denominator (q # 0).
Rat(p, q) ==
    LET s == IF q < 0 THEN -1 ELSE 1
        g == GCD(IAbs(p), IAbs(q))
    IN  <<(s * p) \div g, (s * q) \div g>>

Q(k) == <<k, 1>>
Zero == Q(0)
One == Q(1)

RAdd(a, b) ==
    LET l == (a[2] \div GCD(a[2], b[2])) * b[2]
    IN  Rat(a[1] * (l \div a[2]) + b[1] * (l \div b[2]), l)
RNeg(a) == <<-a[1], a[2]>>
RSub(a, b) == RAdd(a, RNeg(b))
RMul(a, b) ==
    LET g1 == GCD(IAbs(a[1]), b[2])
        g2 == GCD(IAbs(b[1]), a[2])
    IN  Rat((a[1] \div g1) * (b[1] \div g2), (a[2] \div g2) * (b[2] \div g1))
\* a / b for b # 0.
RDiv(a, b) == RMul(a, Rat(b[2], b[1]))
\* a > b
RGt(a, b) == a[1] * b[2] > b[1] * a[2]
RLeq(a, b) == ~RGt(a, b)
\* abs / fabs on a double
RAbs(a) == <<IAbs(a[1]), a[2]>>
\* std::max
RMax(a, b) == IF RGt(b, a) THEN b ELSE a

(***************************************************************************)
(* Eigen vectors and matrices.                                             *)
(***************************************************************************)
\* Variant: sized and not zeroed (resize for setZero); the entries are
\* what the allocation held, 5.0 here.
ZeroVector_resized(n) == [k \in 1..n |-> <<5, 1>>]
\* VectorXd::Zero(n) / setZero(n)
ZeroVector(n) == [k \in 1..n |-> Zero]
\* The entries of a matrix, M(r, c) with r, c counted from 0, column-major.
At(M, r, c) == M.data[r + c * M.rows + 1]
\* A rows x cols matrix with M(r, c) = F[r, c].
MatrixOf(rows, cols, F) ==
    [rows |-> rows, cols |-> cols,
     data |-> [k \in 1..(rows * cols) |->
                  F[(k - 1) % rows, (k - 1) \div rows]]]
\* MatrixXd::Zero(rows, cols) / setZero(rows, cols)
ZeroMatrix(rows, cols) ==
    MatrixOf(rows, cols, [r \in 0..(rows - 1), c \in 0..(cols - 1) |-> Zero])

\* The sum F[0] + ... + F[m - 1].
RECURSIVE SumTo(_, _)
SumTo(F, m) == IF m = 0 THEN Zero ELSE RAdd(SumTo(F, m - 1), F[m - 1])

(***************************************************************************)
(* The accuracy orders.                                                    *)
(***************************************************************************)
SECOND == 0
FOURTH == 1
SIXTH == 2
EIGHTH == 3
AccuracyOrder == {SECOND, FOURTH, SIXTH, EIGHTH}
\* A value outside the enumeration, AccuracyOrder(4).
InvalidOrder == 4

(***************************************************************************)
(* The coefficient tables (switch version).  Each lookup returns the       *)
(* string "invalid_argument" where the code throws std::invalid_argument.  *)
(***************************************************************************)
\* Variant: the eighth-order coefficient 168 mistyped as 186.
get_external_coeffs_typo(accuracy) ==
    CASE accuracy = SECOND -> <<1, -1>>
      [] accuracy = FOURTH -> <<1, -8, 8, -1>>
      [] accuracy = SIXTH -> <<-1, 9, -45, 45, -9, 1>>
      [] accuracy = EIGHTH -> <<3, -32, 186, -672, 672, -168, 32, -3>>
      [] OTHER -> "invalid_argument"
get_external_coeffs(accuracy) ==
    CASE accuracy = SECOND -> <<1, -1>>
      [] accuracy = FOURTH -> <<1, -8, 8, -1>>
      [] accuracy = SIXTH -> <<-1, 9, -45, 45, -9, 1>>
      [] accuracy = EIGHTH -> <<3, -32, 168, -672, 672, -168, 32, -3>>
      [] OTHER -> "invalid_argument"

\* Variant: the sixth-order offsets with the entry -1 left out.
get_interior_coeffs_short(accuracy) ==
    CASE accuracy = SECOND -> <<1, -1>>
      [] accuracy = FOURTH -> <<-2, -1, 1, 2>>
      [] accuracy = SIXTH -> <<-3, -2, 1, 2, 3>>
      [] accuracy = EIGHTH -> <<-4, -3, -2, -1, 1, 2, 3, 4>>
      [] OTHER -> "invalid_argument"
get_interior_coeffs(accuracy) ==
    CASE accuracy = SECOND -> <<1, -1>>
      [] accuracy = FOURTH -> <<-2, -1, 1, 2>>
      [] accuracy = SIXTH -> <<-3, -2, -1, 1, 2, 3>>
      [] accuracy = EIGHTH -> <<-4, -3, -2, -1, 1, 2, 3, 4>>
      [] OTHER -> "invalid_argument"

\* Variant: the sixth-order denominator 60 mistyped as 6.
get_denominator_typo(accuracy) ==
    CASE accuracy = SECOND -> 2
      [] accuracy = FOURTH -> 12
      [] accuracy = SIXTH -> 6
      [] accuracy = EIGHTH -> 840
      [] OTHER -> "invalid_argument"
get_denominator(accuracy) ==
    CASE accuracy = SECOND -> 2
      [] accuracy = FOURTH -> 12
      [] accuracy = SIXTH -> 60
      [] accuracy = EIGHTH -> 840
      [] OTHER -> "invalid_argument"

(***************************************************************************)
(* The coefficient tables (array version): static arrays of four entries   *)
(* indexed by the enumerator's integer value, with no range check.         *)
(***************************************************************************)
coeff ==
    <<  <<1, -1>>, <<1, -8, 8, -1>>, <<-1, 9, -45, 45, -9, 1>>,
        <<3, -32, 168, -672, 672, -168, 32, -3>>  >>
coeff2 ==
    <<  <<1, -1>>, <<-2, -1, 1, 2>>, <<-3, -2, -1, 1, 2, 3>>,
        <<-4, -3, -2, -1, 1, 2, 3, 4>>  >>
dd == <<2, 12, 60, 840>>
\* Variant: one step short (2 * accuracy + 1).
innerSteps_short(accuracy) == 2 * accuracy + 1
innerSteps(accuracy) == 2 * (accuracy + 1)
\* Whether accuracy indexes the four-entry arrays within their bounds.
InArrayRange(accuracy) == accuracy \in 0..3


(***************************************************************************)
(* The state.                                                              *)
(***************************************************************************)
VARIABLES
    ndebug,          \* the build: TRUE when NDEBUG compiles the asserts out
    impl,            \* "switch": the get_*_coeffs version; "array": the
                     \* static-array version of finite_gradient
    op,              \* the routine the caller calls
    pc,              \* the position of the running call
    target,          \* the target function f (see Eval)
    x,               \* the evaluation point
    accuracy,        \* the accuracy order passed by the caller
    eps,             \* the finite-difference step
    tensor_order,    \* TensorOrder of a call of finite_jacobian_tensor
    errors,          \* the absolute errors of the gradients computed so far,
                     \* one vector per accuracy order (SpecOrders)
    prior,           \* the output argument as the caller passed it, where
                     \* the model draws it (SpecOutputs)
    external_coeffs, \* locals of the engines (coeff[accuracy] in the array
    internal_coeffs, \* version, whose locals xx, d, s, ddVal are x_mutable,
    inner_steps,     \* i, ci, denom here)
    denom,
    x_mutable,
    i, j, ci, cj,
    grad, jac, hess, \* the output arguments
    nevals,          \* evaluations of the target function so far
    point,           \* the point of the latest evaluation
    cx, cy,          \* the two containers of a comparison
    test_eps,        \* its tolerance
    same,            \* its result
    log,             \* the diagnostic records it emitted
    ncompared,       \* the element pairs it compared
    X,               \* the matrix given to flatten, or made by unflatten
    flat,            \* the vector made by flatten, or given to unflatten
    dim,             \* the column count given to unflatten
    R,               \* the matrix made by unflatten
    writes,          \* how often each entry of the result was written
    workers,         \* the workers of a loop run in parallel, one per
                     \* coordinate: each one's working copy, stencil step,
                     \* evaluations and writes
    sink             \* what the logger does with a debug record: "records"
                     \* (level debug or below) or "discards" (the default
                     \* level, info)

buildVars == <<ndebug, impl, op>>
contextVars == <<workers, sink>>
inputVars == <<target, x, accuracy, eps, prior, tensor_order, errors>>
localVars ==
    <<external_coeffs, internal_coeffs, inner_steps, denom, x_mutable,
      i, j, ci, cj>>
outVars == <<grad, jac, hess>>
traceVars == <<nevals, point>>
cmpVars == <<cx, cy, test_eps, same, log, ncompared>>
flatVars == <<X, flat, dim, R, writes>>
utilVars == <<cmpVars, flatVars>>
vars ==
    <<buildVars, contextVars, pc, inputVars, localVars, outVars, traceVars,
      cmpVars, flatVars>>

\* The value of a variable that holds nothing yet.
None == "none"

(***************************************************************************)
(* Target functions.                                                       *)
(***************************************************************************)
\* f(v) = vT A v + bT v (tests: "gradient of quadratic", "hessian of
\* quadratic").
Quadratic(A, b, v) ==
    LET n == Len(v)
        row(r) == SumTo([c \in 0..(n - 1) |->
                            RMul(RMul(v[r + 1], At(A, r, c)), v[c + 1])], n)
    IN  RAdd(SumTo([r \in 0..(n - 1) |-> row(r)], n),
             SumTo([r \in 0..(n - 1) |-> RMul(b[r + 1], v[r + 1])], n))

\* f(v) = A v (test: "jacobian of linear"), a vector of A.rows entries.
Linear(A, v) ==
    [r \in 1..A.rows |->
        SumTo([c \in 0..(A.cols - 1) |-> RMul(At(A, r - 1, c), v[c + 1])],
              A.cols)]

\* f(v) = |bT v|, a target that is not smooth and has no Hessian where
\* bT v = 0: whatever the engines compute from it is not a derivative.
Absolute(b, v) ==
    RAbs(SumTo([r \in 0..(Len(v) - 1) |-> RMul(b[r + 1], v[r + 1])], Len(v)))

\* f(v) = sum_k v_k * T_k, a p x q matrix (test: "finite_jacobian_tensor
\* layouts").
Tensor(T, p, q, v) ==
    MatrixOf(p, q,
             [a \in 0..(p - 1), b \in 0..(q - 1) |->
                 SumTo([k \in 0..(Len(v) - 1) |->
                           RMul(v[k + 1], At(T[k + 1], a, b))], Len(v))])

\* a^m
RECURSIVE RPow(_, _)
RPow(a, m) == IF m = 0 THEN One ELSE RMul(a, RPow(a, m - 1))
\* f(v) = sum_k v_k^m, a polynomial of degree m.
Power(m, v) == SumTo([k \in 0..(Len(v) - 1) |-> RPow(v[k + 1], m)], Len(v))

\* One evaluation f(v) of the target function.
Eval(f, v) ==
    CASE f.kind = "quadratic" -> Quadratic(f.A, f.b, v)
      [] f.kind = "linear" -> Linear(f.A, v)
      [] f.kind = "absolute" -> Absolute(f.b, v)
      [] f.kind = "tensor" -> Tensor(f.T, f.p, f.q, v)
      [] f.kind = "power" -> Power(f.m, v)

(***************************************************************************)
(* The inputs the model draws.                                             *)
(***************************************************************************)
\* The entries a random matrix A takes.
AVals == {Q(-1), Q(2)}
\* The rows x cols matrices over AVals.
Matrices(rows, cols) ==
    {[rows |-> rows, cols |-> cols, data |-> d] :
        d \in [1..(rows * cols) -> AVals]}
\* The n x n matrices over AVals on and below the diagonal, zero above it
\* (xT A x depends on A + AT alone).
LowerMatrices(n) ==
    {[rows |-> n, cols |-> n,
      data |-> [k \in 1..(n * n) |->
                   IF (k - 1) % n >= (k - 1) \div n THEN d[k] ELSE Zero]] :
        d \in [1..(n * n) -> AVals]}
\* Two points of each dimension: 0, 1, 2, ... and 1/2, -1/2, -3/2, ...
Points(n) ==
    {[k \in 1..n |-> Q(k - 1)], [k \in 1..n |-> Rat(3 - 2 * k, 2)]}
\* Two vectors b of each dimension: 1, 0, -1, ... and -3, -3, ...
BVectors(n) == {[k \in 1..n |-> Q(2 - k)], [k \in 1..n |-> Q(-3)]}
\* The steps eps.
EpsVals == {Rat(1, 2), Q(1)}
\* The accuracy orders a caller passes: the enumeration and one value
\* outside it.
Orders == AccuracyOrder \cup {InvalidOrder}
\* What a read of uninitialized or out-of-bounds memory may yield.
GarbageVals == {Zero, Q(5)}


(***************************************************************************)
(* The comparison routines.  A call is one step; its outcome is the record *)
(* [status, same, log, ncompared].  With the asserts compiled out a        *)
(* mismatched shape makes the loop read y outside its storage, which is    *)
(* undefined: the read yields the value g, or the process dies when g is   *)
(* Segv.                                                                   *)
(***************************************************************************)
\* The out-of-bounds read that kills the process (no double value).
Segv == <<0, 0>>

\* Variant: abs_diff >= test_eps * scale, the bound itself rejected.
Differs_strict(a, b, t) ==
    LET scale == RMax(RMax(RAbs(a), RAbs(b)), One)
        abs_diff == RAbs(RSub(a, b))
    IN  ~RGt(RMul(t, scale), abs_diff)
\* Variant: the scale taken from the first value alone
\* (scale = max(abs(x[i]), 1.0)).
Differs_scale_x(a, b, t) ==
    LET scale == RMax(RAbs(a), One)
        abs_diff == RAbs(RSub(a, b))
    IN  RGt(abs_diff, RMul(t, scale))
\* abs_diff > test_eps * scale for one element pair.
Differs(a, b, t) ==
    LET scale == RMax(RMax(RAbs(a), RAbs(b)), One)
        abs_diff == RAbs(RSub(a, b))
    IN  RGt(abs_diff, RMul(t, scale))

\* y[k] read through Eigen's unchecked coefficient access.
ReadVector(w, k, g) == IF k < Len(w) THEN w[k + 1] ELSE g
\* y(r, c) read through Eigen's unchecked coefficient access.
ReadMatrix(M, r, c, g) ==
    LET off == r + c * M.rows
    IN  IF off < M.rows * M.cols THEN M.data[off + 1] ELSE g

\* spdlog::debug(...): what the logger keeps of the records emitted.
spdlog_debug(records) == IF sink = "records" THEN records ELSE <<>>

\* Variant: the loop left at the first mismatch (a break after
\* same = false).
RECURSIVE compare_gradient_loop_stop(_, _, _, _, _)
compare_gradient_loop_stop(u, w, t, g, k) ==
    IF k = 0
    THEN [same |-> TRUE, log |-> <<>>, ncompared |-> 0]
    ELSE LET before == compare_gradient_loop_stop(u, w, t, g, k - 1)
             a == u[k]
             b == ReadVector(w, k - 1, g)
         IN  IF ~before.same
             THEN before
             ELSE IF Differs(a, b, t)
             THEN [same |-> FALSE,
                   log |-> Append(before.log,
                                  [r |-> k - 1, c |-> 0, x |-> a, y |-> b,
                                   abs_diff |-> RAbs(RSub(a, b))]),
                   ncompared |-> before.ncompared + 1]
             ELSE [before EXCEPT !.ncompared = @ + 1]
\* The state of compare_gradient's loop after the iterations 0 .. k - 1.
RECURSIVE compare_gradient_loop(_, _, _, _, _)
compare_gradient_loop(u, w, t, g, k) ==
    IF k = 0
    THEN [same |-> TRUE, log |-> <<>>, ncompared |-> 0]
    ELSE LET before == compare_gradient_loop(u, w, t, g, k - 1)
             a == u[k]
             b == ReadVector(w, k - 1, g)
         IN  IF Differs(a, b, t)
             THEN [same |-> FALSE,
                   log |-> Append(before.log,
                                  [r |-> k - 1, c |-> 0, x |-> a, y |-> b,
                                   abs_diff |-> RAbs(RSub(a, b))]),
                   ncompared |-> before.ncompared + 1]
             ELSE [before EXCEPT !.ncompared = @ + 1]

Outcome(status, loop) ==
    [status |-> status, same |-> loop.same, log |-> loop.log,
     ncompared |-> loop.ncompared]
NoLoop == [same |-> None, log |-> <<>>, ncompared |-> 0]

compare_gradient(u, w, t, g) ==
    IF Len(u) # Len(w) /\ ~ndebug
    THEN Outcome("aborted", NoLoop)
    ELSE IF Len(u) > Len(w) /\ g = Segv
    THEN Outcome("crashed", NoLoop)
    ELSE Outcome("returned", compare_gradient_loop(u, w, t, g, Len(u)))

\* The state of compare_jacobian's loops after the first k element pairs
\* in the order visited (row by row, each row from column 0).
RECURSIVE compare_jacobian_loop(_, _, _, _, _)
compare_jacobian_loop(U, W, t, g, k) ==
    IF k = 0
    THEN [same |-> TRUE, log |-> <<>>, ncompared |-> 0]
    ELSE LET before == compare_jacobian_loop(U, W, t, g, k - 1)
             r == (k - 1) \div U.cols
             c == (k - 1) % U.cols
             a == At(U, r, c)
             b == ReadMatrix(W, r, c, g)
         IN  IF Differs(a, b, t)
             THEN [same |-> FALSE,
                   log |-> Append(before.log,
                                  [r |-> r, c |-> c, x |-> a, y |-> b,
                                   abs_diff |-> RAbs(RSub(a, b))]),
                   ncompared |-> before.ncompared + 1]
             ELSE [before EXCEPT !.ncompared = @ + 1]

\* Whether the loops over x's shape read y outside its storage.
ReadsOutside(U, W) ==
    \E r \in 0..(U.rows - 1), c \in 0..(U.cols - 1) :
        r + c * W.rows >= W.rows * W.cols

compare_jacobian(U, W, t, g) ==
    IF (U.rows # W.rows \/ U.cols # W.cols) /\ ~ndebug
    THEN Outcome("aborted", NoLoop)
    ELSE IF ReadsOutside(U, W) /\ g = Segv
    THEN Outcome("crashed", NoLoop)
    ELSE Outcome("returned",
                 compare_jacobian_loop(U, W, t, g, U.rows * U.cols))

compare_hessian(U, W, t, g) == compare_jacobian(U, W, t, g)

\* The default tolerance of the comparison routines, 1e-4.
DefaultTestEps == Rat(1, 10000)


(***************************************************************************)
(* finite_gradient, switch version.                                        *)
(***************************************************************************)
\* The content of a sized, not yet written entry (no double value).
Uninit == <<1, 0>>

\* A vector of rationals from a vector of integer coefficients.
Coeffs(cs) == [k \in 1..Len(cs) |-> Q(cs[k])]

\* Variant: the offset added to the original coordinate
\* (x_mutable[k] = x[k] + c * eps).
perturb_from_x(w, k, c) == [w EXCEPT ![k + 1] = RAdd(x[k + 1], RMul(c, eps))]
\* x_mutable[k] += c * eps
perturb(w, k, c) == [w EXCEPT ![k + 1] = RAdd(@, RMul(c, eps))]

\* Variant: the working copy left perturbed (the restore missing).
restore_skipped(w, k, v) == w
\* x_mutable[k] = x[k]
restore(w, k, v) == [w EXCEPT ![k + 1] = v[k + 1]]

\* The call up to the loop: the three lookups (each throws on an order
\* outside the enumeration), the size assert, denom, grad.setZero and the
\* working copy.
finite_gradient_call ==
    /\ pc = "call_gradient"
    /\ impl = "switch"
    /\ IF accuracy \notin AccuracyOrder
       THEN /\ pc' = "invalid_argument"
            /\ UNCHANGED <<localVars, outVars>>
       ELSE LET ext == get_external_coeffs(accuracy)
                int == get_interior_coeffs(accuracy)
            IN  IF Len(ext) # Len(int) /\ ~ndebug
                THEN /\ pc' = "aborted"
                     /\ UNCHANGED <<localVars, outVars>>
                ELSE /\ external_coeffs' = Coeffs(ext)
                     /\ internal_coeffs' = Coeffs(int)
                     /\ inner_steps' = Len(int)
                     /\ denom' = RMul(Q(get_denominator(accuracy)), eps)
                     /\ grad' = ZeroVector(Len(x))
                     /\ x_mutable' = x
                     /\ i' = 0
                     /\ ci' = 0
                     /\ pc' = "gradient_loop"
                     /\ UNCHANGED <<j, cj, jac, hess>>
    /\ UNCHANGED <<buildVars, contextVars, inputVars, traceVars, utilVars>>

\* One stencil step: perturb coordinate i, evaluate, accumulate, restore.
finite_gradient_step ==
    /\ pc = "gradient_loop"
    /\ impl = "switch"
    /\ i < Len(x)
    /\ ci < inner_steps
    /\ LET perturbed ==
               perturb(x_mutable, i, internal_coeffs[ci + 1])
       IN  /\ grad' = [grad EXCEPT
                          ![i + 1] = RAdd(@, RMul(external_coeffs[ci + 1],
                                                  Eval(target, perturbed)))]
           /\ point' = perturbed
           /\ x_mutable' = restore(perturbed, i, x)
    /\ nevals' = nevals + 1
    /\ ci' = ci + 1
    /\ UNCHANGED <<buildVars, contextVars, pc, inputVars, external_coeffs,
                   internal_coeffs, inner_steps, denom, i, j, cj, jac, hess,
                   utilVars>>

\* The end of coordinate i's stencil: grad[i] /= denom.
finite_gradient_divide ==
    /\ pc = "gradient_loop"
    /\ impl = "switch"
    /\ i < Len(x)
    /\ ci = inner_steps
    /\ grad' = [grad EXCEPT ![i + 1] = RDiv(@, denom)]
    /\ i' = i + 1
    /\ ci' = 0
    /\ UNCHANGED <<buildVars, contextVars, pc, inputVars, external_coeffs,
                   internal_coeffs, inner_steps, denom, x_mutable, j, cj, jac,
                   hess, traceVars, utilVars>>

finite_gradient_return ==
    /\ pc = "gradient_loop"
    /\ impl = "switch"
    /\ i = Len(x)
    /\ pc' = "gradient_returned"
    /\ UNCHANGED <<buildVars, contextVars, inputVars, localVars, outVars,
                   traceVars, utilVars>>

(***************************************************************************)
(* finite_gradient, array version.  With an order outside 0 .. 3 the       *)
(* reads dd[accuracy], coeff2[accuracy][s] and coeff[accuracy][s] are      *)
(* outside the arrays: undefined behaviour, which either kills the process *)
(* or returns with whatever the reads produced.                            *)
(***************************************************************************)
finite_gradient_array_call ==
    /\ pc = "call_gradient"
    /\ impl = "array"
    /\ InArrayRange(accuracy)
    /\ grad' = IF Len(grad) = Len(x) THEN grad
               ELSE [k \in 1..Len(x) |-> Uninit]
    /\ external_coeffs' = Coeffs(coeff[accuracy + 1])
    /\ internal_coeffs' = Coeffs(coeff2[accuracy + 1])
    /\ inner_steps' = innerSteps(accuracy)
    /\ denom' = RMul(Q(dd[accuracy + 1]), eps)
    /\ x_mutable' = x
    /\ i' = 0
    /\ ci' = 0
    /\ pc' = "gradient_loop"
    /\ UNCHANGED <<buildVars, contextVars, inputVars, j, cj, jac, hess,
                   traceVars, utilVars>>

finite_gradient_array_undefined ==
    /\ pc = "call_gradient"
    /\ impl = "array"
    /\ ~InArrayRange(accuracy)
    /\ \/ /\ pc' = "crashed"
          /\ UNCHANGED grad
       \/ /\ pc' = "gradient_returned"
          /\ grad' \in [1..Len(x) -> GarbageVals]
    /\ UNCHANGED <<buildVars, contextVars, inputVars, localVars, jac, hess,
                   traceVars, utilVars>>

\* One stencil step; the first of a coordinate follows grad[d] = 0.
finite_gradient_array_step ==
    /\ pc = "gradient_loop"
    /\ impl = "array"
    /\ i < Len(x)
    /\ ci < inner_steps
    /\ LET tmp == x[i + 1]
           perturbed ==
               perturb(x_mutable, i, internal_coeffs[ci + 1])
           cleared == IF ci = 0 THEN [grad EXCEPT ![i + 1] = Zero] ELSE grad
       IN  /\ grad' = [cleared EXCEPT
                          ![i + 1] = RAdd(@, RMul(external_coeffs[ci + 1],
                                                  Eval(target, perturbed)))]
           /\ point' = perturbed
           /\ x_mutable' = [perturbed EXCEPT ![i + 1] = tmp]
    /\ nevals' = nevals + 1
    /\ ci' = ci + 1
    /\ UNCHANGED <<buildVars, contextVars, pc, inputVars, external_coeffs,
                   internal_coeffs, inner_steps, denom, i, j, cj, jac, hess,
                   utilVars>>

finite_gradient_array_divide ==
    /\ pc = "gradient_loop"
    /\ impl = "array"
    /\ i < Len(x)
    /\ ci = inner_steps
    /\ grad' = [grad EXCEPT ![i + 1] = RDiv(@, denom)]
    /\ i' = i + 1
    /\ ci' = 0
    /\ UNCHANGED <<buildVars, contextVars, pc, inputVars, external_coeffs,
                   internal_coeffs, inner_steps, denom, x_mutable, j, cj, jac,
                   hess, traceVars, utilVars>>

finite_gradient_array_return ==
    /\ pc = "gradient_loop"
    /\ impl = "array"
    /\ i = Len(x)
    /\ pc' = "gradient_returned"
    /\ UNCHANGED <<buildVars, contextVars, inputVars, localVars, outVars,
                   traceVars, utilVars>>

(***************************************************************************)
(* The test "Finite difference gradient of quadratic": the analytic        *)
(* gradient A x + AT x + b, compared with the engine's output.             *)
(***************************************************************************)
AnalyticGradient(f, v) ==
    LET n == Len(v)
    IN  [k \in 1..n |->
            RAdd(SumTo([c \in 0..(n - 1) |->
                           RMul(RAdd(At(f.A, k - 1, c), At(f.A, c, k - 1)),
                                v[c + 1])], n),
                 f.b[k])]

test_gradient_compare ==
    /\ pc = "gradient_returned"
    /\ accuracy \in AccuracyOrder
    /\ cx' = AnalyticGradient(target, x)
    /\ cy' = grad
    /\ test_eps' = DefaultTestEps
    /\ LET res == compare_gradient(cx', cy', test_eps', Zero)
       IN  /\ pc' = "gradient_test_" \o res.status
           /\ same' = res.same
           /\ log' = res.log
           /\ ncompared' = res.ncompared
    /\ UNCHANGED <<buildVars, contextVars, inputVars, localVars, outVars,
                   traceVars, flatVars>>

(***************************************************************************)
(* finite_jacobian (f returns a vector).                                   *)
(***************************************************************************)
\* M with scale * w added to column c (jac.col(c) += scale * w).
AddToCol(M, c, scale, w) ==
    [M EXCEPT !.data =
        [k \in 1..Len(M.data) |->
            IF (k - 1) \div M.rows = c
            THEN RAdd(M.data[k], RMul(scale, w[((k - 1) % M.rows) + 1]))
            ELSE M.data[k]]]
\* Variant: the whole matrix divided (jac /= d) on every column's turn.
DivCol_all(M, c, d) ==
    [M EXCEPT !.data = [k \in 1..Len(M.data) |-> RDiv(M.data[k], d)]]
\* M with column c divided by d (jac.col(c) /= d).
DivCol(M, c, d) ==
    [M EXCEPT !.data =
        [k \in 1..Len(M.data) |->
            IF (k - 1) \div M.rows = c THEN RDiv(M.data[k], d)
            ELSE M.data[k]]]

\* The call up to the loop; jac.setZero(f(x).rows(), x.rows()) evaluates
\* f once at the unperturbed point.
finite_jacobian_call ==
    /\ pc = "call_jacobian"
    /\ IF accuracy \notin AccuracyOrder
       THEN /\ pc' = "invalid_argument"
            /\ UNCHANGED <<localVars, outVars, traceVars>>
       ELSE LET ext == get_external_coeffs(accuracy)
                int == get_interior_coeffs(accuracy)
            IN  IF Len(ext) # Len(int) /\ ~ndebug
                THEN /\ pc' = "aborted"
                     /\ UNCHANGED <<localVars, outVars, traceVars>>
                ELSE /\ external_coeffs' = Coeffs(ext)
                     /\ internal_coeffs' = Coeffs(int)
                     /\ inner_steps' = Len(int)
                     /\ denom' = RMul(Q(get_denominator(accuracy)), eps)
                     /\ jac' = ZeroMatrix(Len(Eval(target, x)), Len(x))
                     /\ nevals' = nevals + 1
                     /\ point' = x
                     /\ x_mutable' = x
                     /\ i' = 0
                     /\ ci' = 0
                     /\ pc' = "jacobian_loop"
                     /\ UNCHANGED <<j, cj, grad, hess>>
    /\ UNCHANGED <<buildVars, contextVars, inputVars, utilVars>>

finite_jacobian_step ==
    /\ pc = "jacobian_loop"
    /\ i < Len(x)
    /\ ci < inner_steps
    /\ LET perturbed ==
               perturb(x_mutable, i, internal_coeffs[ci + 1])
       IN  /\ jac' = AddToCol(jac, i, external_coeffs[ci + 1],
                              Eval(target, perturbed))
           /\ point' = perturbed
           /\ x_mutable' = restore(perturbed, i, x)
    /\ nevals' = nevals + 1
    /\ ci' = ci + 1
    /\ UNCHANGED <<buildVars, contextVars, pc, inputVars, external_coeffs,
                   internal_coeffs, inner_steps, denom, i, j, cj, grad, hess,
                   utilVars>>

finite_jacobian_divide ==
    /\ pc = "jacobian_loop"
    /\ i < Len(x)
    /\ ci = inner_steps
    /\ jac' = DivCol(jac, i, denom)
    /\ i' = i + 1
    /\ ci' = 0
    /\ UNCHANGED <<buildVars, contextVars, pc, inputVars, external_coeffs,
                   internal_coeffs, inner_steps, denom, x_mutable, j, cj,
                   grad, hess, traceVars, utilVars>>

finite_jacobian_return ==
    /\ pc = "jacobian_loop"
    /\ i = Len(x)
    /\ pc' = "jacobian_returned"
    /\ UNCHANGED <<buildVars, contextVars, inputVars, localVars, outVars,
                   traceVars, utilVars>>

\* The test "Test finite difference jacobian of linear": jac = A.
test_jacobian_compare ==
    /\ pc = "jacobian_returned"
    /\ cx' = target.A
    /\ cy' = jac
    /\ test_eps' = DefaultTestEps
    /\ LET res == compare_jacobian(cx', cy', test_eps', Zero)
       IN  /\ pc' = "jacobian_test_" \o res.status
           /\ same' = res.same
           /\ log' = res.log
           /\ ncompared' = res.ncompared
    /\ UNCHANGED <<buildVars, contextVars, inputVars, localVars, outVars,
                   traceVars, flatVars>>

(***************************************************************************)
(* finite_hessian.                                                         *)
(***************************************************************************)
\* M with M(r, c) replaced by v.
SetAt(M, r, c, v) == [M EXCEPT !.data[r + c * M.rows + 1] = v]

\* Variant: the denominator left unsquared (denom *= denom missing).
hessian_denom_unsquared(order, step) ==
    RMul(Q(get_denominator(order)), step)
\* Variant: the inner loop over j started at 0 (for (size_t j = 0; ...)).
first_j_zero(row) == 0
\* for (size_t j = i; j < x.rows(); j++): where the loop over j starts.
first_j(row) == row

\* Variant: the lower triangle left as setZero made it.
mirror_skipped(M, r, c) == M
\* hess(j, i) = hess(i, j)
mirror(M, r, c) == SetAt(M, c, r, At(M, r, c))

\* double denom = get_denominator(accuracy) * eps; denom *= denom;
hessian_denom(order, step) ==
    LET d == RMul(Q(get_denominator(order)), step)
    IN  RMul(d, d)

finite_hessian_call ==
    /\ pc = "call_hessian"
    /\ IF accuracy \notin AccuracyOrder
       THEN /\ pc' = "invalid_argument"
            /\ UNCHANGED <<localVars, outVars>>
       ELSE LET ext == get_external_coeffs(accuracy)
                int == get_interior_coeffs(accuracy)
            IN  IF Len(ext) # Len(int) /\ ~ndebug
                THEN /\ pc' = "aborted"
                     /\ UNCHANGED <<localVars, outVars>>
                ELSE /\ external_coeffs' = Coeffs(ext)
                     /\ internal_coeffs' = Coeffs(int)
                     /\ inner_steps' = Len(int)
                     /\ denom' = hessian_denom(accuracy, eps)
                     /\ hess' = ZeroMatrix(Len(x), Len(x))
                     /\ x_mutable' = x
                     /\ i' = 0
                     /\ j' = first_j(0)
                     /\ ci' = 0
                     /\ cj' = 0
                     /\ pc' = "hessian_loop"
                     /\ UNCHANGED <<grad, jac>>
    /\ UNCHANGED <<buildVars, contextVars, inputVars, traceVars, utilVars>>

\* One (ci, cj) step of the pair (i, j): perturb both coordinates,
\* evaluate, accumulate, restore both; then the next (ci, cj).
finite_hessian_step ==
    /\ pc = "hessian_loop"
    /\ i < Len(x)
    /\ j < Len(x)
    /\ ci < inner_steps
    /\ LET first ==
               perturb(x_mutable, i, internal_coeffs[ci + 1])
           perturbed ==
               perturb(first, j, internal_coeffs[cj + 1])
           restored_j == restore(perturbed, j, x)
       IN  /\ hess' = SetAt(hess, i, j,
                         RAdd(At(hess, i, j),
                              RMul(RMul(external_coeffs[ci + 1],
                                        external_coeffs[cj + 1]),
                                   Eval(target, perturbed))))
           /\ point' = perturbed
           /\ x_mutable' = restore(restored_j, i, x)
    /\ nevals' = nevals + 1
    /\ IF cj + 1 < inner_steps
       THEN cj' = cj + 1 /\ ci' = ci
       ELSE cj' = 0 /\ ci' = ci + 1
    /\ UNCHANGED <<buildVars, contextVars, pc, inputVars, external_coeffs,
                   internal_coeffs, inner_steps, denom, i, j, grad, jac,
                   utilVars>>

\* The end of the pair (i, j): divide, mirror, and the next pair.
finite_hessian_divide ==
    /\ pc = "hessian_loop"
    /\ i < Len(x)
    /\ j < Len(x)
    /\ ci = inner_steps
    /\ LET divided == SetAt(hess, i, j, RDiv(At(hess, i, j), denom))
       IN  hess' = mirror(divided, i, j)
    /\ IF j + 1 < Len(x)
       THEN j' = j + 1 /\ i' = i
       ELSE j' = first_j(i + 1) /\ i' = i + 1
    /\ ci' = 0
    /\ cj' = 0
    /\ UNCHANGED <<buildVars, contextVars, pc, inputVars, external_coeffs,
                   internal_coeffs, inner_steps, denom, x_mutable, grad, jac,
                   traceVars, utilVars>>

finite_hessian_return ==
    /\ pc = "hessian_loop"
    /\ i = Len(x)
    /\ pc' = "hessian_returned"
    /\ UNCHANGED <<buildVars, contextVars, inputVars, localVars, outVars,
                   traceVars, utilVars>>

\* The test "Test finite difference hessian of quadratic": hess = A + AT.
AnalyticHessian(f) ==
    MatrixOf(f.A.rows, f.A.cols,
             [r \in 0..(f.A.rows - 1), c \in 0..(f.A.cols - 1) |->
                 RAdd(At(f.A, r, c), At(f.A, c, r))])

test_hessian_compare ==
    /\ pc = "hessian_returned"
    /\ cx' = AnalyticHessian(target)
    /\ cy' = hess
    /\ test_eps' = DefaultTestEps
    /\ LET res == compare_hessian(cx', cy', test_eps', Zero)
       IN  /\ pc' = "hessian_test_" \o res.status
           /\ same' = res.same
           /\ log' = res.log
           /\ ncompared' = res.ncompared
    /\ UNCHANGED <<buildVars, contextVars, inputVars, localVars, outVars,
                   traceVars, flatVars>>

(***************************************************************************)
(* The specifications of the engines.                                      *)
(***************************************************************************)
\* The state before any call: nothing computed yet.
Idle ==
    /\ external_coeffs = None /\ internal_coeffs = None
    /\ inner_steps = None /\ denom = None /\ x_mutable = None
    /\ i = None /\ j = None /\ ci = None /\ cj = None
    /\ grad = <<>> /\ jac = None /\ hess = None
    /\ nevals = 0 /\ point = None /\ errors = <<>>
    /\ workers = None /\ sink = "discards"
    /\ tensor_order = None /\ prior = None
    /\ cx = None /\ cy = None /\ test_eps = None
    /\ same = None /\ log = <<>> /\ ncompared = 0
    /\ X = None /\ flat = None /\ dim = None /\ R = None /\ writes = None

\* The locals and the other variables before the call.
IdleLocals ==
    /\ external_coeffs = None /\ internal_coeffs = None
    /\ inner_steps = None /\ denom = None /\ x_mutable = None
    /\ i = None /\ j = None /\ ci = None /\ cj = None
    /\ nevals = 0 /\ point = None /\ errors = <<>>
    /\ workers = None /\ sink = "discards"
    /\ cx = None /\ cy = None /\ test_eps = None
    /\ same = None /\ log = <<>> /\ ncompared = 0
    /\ X = None /\ flat = None /\ dim = None /\ R = None /\ writes = None

InitGradient ==
    /\ ndebug = FALSE
    /\ impl \in {"switch", "array"}
    /\ op = "finite_gradient"
    /\ pc = "call_gradient"
    /\ \E n \in 0..MaxN :
          /\ target \in {[kind |-> "quadratic", A |-> A, b |-> b] :
                            A \in Matrices(n, n), b \in BVectors(n)}
          /\ x \in Points(n)
    /\ accuracy \in Orders
    /\ eps \in EpsVals
    /\ Idle

NextGradient ==
    \/ finite_gradient_call
    \/ finite_gradient_step
    \/ finite_gradient_divide
    \/ finite_gradient_return
    \/ finite_gradient_array_call
    \/ finite_gradient_array_undefined
    \/ finite_gradient_array_step
    \/ finite_gradient_array_divide
    \/ finite_gradient_array_return
    \/ test_gradient_compare

SpecGradient == InitGradient /\ [][NextGradient]_vars

InitJacobian ==
    /\ ndebug = FALSE
    /\ impl = "switch"
    /\ op = "finite_jacobian"
    /\ pc = "call_jacobian"
    /\ \E n \in 0..MaxN, k \in 1..MaxN :
          /\ target \in {[kind |-> "linear", A |-> A] : A \in Matrices(k, n)}
          /\ x \in Points(n)
    /\ accuracy \in Orders
    /\ eps \in EpsVals
    /\ Idle

NextJacobian ==
    \/ finite_jacobian_call
    \/ finite_jacobian_step
    \/ finite_jacobian_divide
    \/ finite_jacobian_return
    \/ test_jacobian_compare

SpecJacobian == InitJacobian /\ [][NextJacobian]_vars

InitHessian ==
    /\ ndebug = FALSE
    /\ impl = "switch"
    /\ op = "finite_hessian"
    /\ pc = "call_hessian"
    /\ \E n \in 0..MaxN :
          /\ target \in {[kind |-> "quadratic", A |-> A, b |-> b] :
                            A \in LowerMatrices(n), b \in BVectors(n)}
          /\ x \in Points(n)
    /\ accuracy \in Orders
    /\ eps \in EpsVals
    /\ Idle

NextHessian ==
    \/ finite_hessian_call
    \/ finite_hessian_step
    \/ finite_hessian_divide
    \/ finite_hessian_return
    \/ test_hessian_compare

SpecHessian == InitHessian /\ [][NextHessian]_vars

\* The three engines together.
Init == InitGradient \/ InitJacobian \/ InitHessian
Next == NextGradient \/ NextJacobian \/ NextHessian
Spec == Init /\ [][Next]_vars

(***************************************************************************)
(* Direct calls of the comparison routines.                                *)
(***************************************************************************)
\* What an out-of-bounds read of y does: it yields a value, or the
\* process dies.
ReadOutcomes == GarbageVals \cup {Segv}

compare_gradient_call ==
    /\ pc = "call_compare"
    /\ op = "compare_gradient"
    /\ \E g \in ReadOutcomes :
          LET res == compare_gradient(cx, cy, test_eps, g)
          IN  /\ pc' = "compare_" \o res.status
              /\ same' = res.same
              /\ log' = res.log
              /\ ncompared' = res.ncompared
    /\ UNCHANGED <<buildVars, contextVars, inputVars, localVars, outVars,
                   traceVars, cx, cy, test_eps, flatVars>>

compare_jacobian_call ==
    /\ pc = "call_compare"
    /\ op = "compare_jacobian"
    /\ \E g \in ReadOutcomes :
          LET res == compare_jacobian(cx, cy, test_eps, g)
          IN  /\ pc' = "compare_" \o res.status
              /\ same' = res.same
              /\ log' = res.log
              /\ ncompared' = res.ncompared
    /\ UNCHANGED <<buildVars, contextVars, inputVars, localVars, outVars,
                   traceVars, cx, cy, test_eps, flatVars>>

compare_hessian_call ==
    /\ pc = "call_compare"
    /\ op = "compare_hessian"
    /\ \E g \in ReadOutcomes :
          LET res == compare_hessian(cx, cy, test_eps, g)
          IN  /\ pc' = "compare_" \o res.status
              /\ same' = res.same
              /\ log' = res.log
              /\ ncompared' = res.ncompared
    /\ UNCHANGED <<buildVars, contextVars, inputVars, localVars, outVars,
                   traceVars, cx, cy, test_eps, flatVars>>

\* The entries of the vectors compared.
CmpVals == {Q(-2), Q(-1), Zero, Rat(1, 2)}
CmpVectors == UNION {[1..n -> CmpVals] : n \in 0..MaxDim}
\* The first matrix of a comparison: all -1, or 0 and -1 alternating.
CmpFirst(rows, cols) ==
    {MatrixOf(rows, cols,
              [r \in 0..(rows - 1), c \in 0..(cols - 1) |-> Q(-1)]),
     MatrixOf(rows, cols,
              [r \in 0..(rows - 1), c \in 0..(cols - 1) |->
                  IF (r + c) % 2 = 0 THEN Zero ELSE Q(-1)])}
\* The second: every matrix over -2 and 1/2.
CmpSecond(rows, cols) ==
    {[rows |-> rows, cols |-> cols, data |-> d] :
        d \in [1..(rows * cols) -> {Q(-2), Rat(1, 2)}]}
\* The tolerances: 1/2 and the default 1e-4.
TestEpsVals == {Rat(1, 2), DefaultTestEps}

InitCompare ==
    /\ ndebug \in BOOLEAN
    /\ impl = "switch"
    /\ pc = "call_compare"
    /\ \/ /\ op = "compare_gradient"
          /\ cx \in CmpVectors
          /\ cy \in CmpVectors
       \/ /\ op \in {"compare_jacobian", "compare_hessian"}
          /\ \E r1 \in 0..MaxDim, c1 \in 0..MaxDim :
                cx \in CmpFirst(r1, c1)
          /\ \E r2 \in 0..MaxDim, c2 \in 0..MaxDim :
                cy \in CmpSecond(r2, c2)
    /\ test_eps \in TestEpsVals
    /\ target = None /\ x = None /\ accuracy = None /\ eps = None
    /\ external_coeffs = None /\ internal_coeffs = None
    /\ inner_steps = None /\ denom = None /\ x_mutable = None
    /\ i = None /\ j = None /\ ci = None /\ cj = None
    /\ grad = <<>> /\ jac = None /\ hess = None
    /\ nevals = 0 /\ point = None /\ errors = <<>>
    /\ workers = None /\ sink = "discards"
    /\ tensor_order = None /\ prior = None
    /\ same = None /\ log = <<>> /\ ncompared = 0
    /\ X = None /\ flat = None /\ dim = None /\ R = None /\ writes = None

NextCompare ==
    \/ compare_gradient_call
    \/ compare_jacobian_call
    \/ compare_hessian_call

SpecCompare == InitCompare /\ [][NextCompare]_vars

(***************************************************************************)
(* flatten and unflatten, and the test "Flatten and unflatten":            *)
(* R = unflatten(flatten(X), X.cols()).                                    *)
(***************************************************************************)
\* Eigen::VectorXd x(X.size()): sized, not initialized.
flatten_call ==
    /\ pc = "call_flatten"
    /\ flat' = [k \in 1..(X.rows * X.cols) |-> Uninit]
    /\ writes' = [k \in 1..(X.rows * X.cols) |-> 0]
    /\ i' = 0
    /\ j' = 0
    /\ pc' = "flatten_loop"
    /\ UNCHANGED <<buildVars, contextVars, inputVars, external_coeffs,
                   internal_coeffs, inner_steps, denom, x_mutable, ci, cj,
                   outVars, traceVars, cmpVars, X, dim, R>>

\* Variant: the row stride taken from the row count (i * X.rows() + j).
flatten_index_rows(M, r, c) == r * M.rows + c
\* The index flatten writes X(r, c) to.
flatten_index(M, r, c) == r * M.cols + c

\* x(i * X.cols() + j) = X(i, j)
flatten_step ==
    /\ pc = "flatten_loop"
    /\ i < X.rows
    /\ j < X.cols
    /\ flat' = [flat EXCEPT ![flatten_index(X, i, j) + 1] = At(X, i, j)]
    /\ writes' = [writes EXCEPT ![flatten_index(X, i, j) + 1] = @ + 1]
    /\ j' = j + 1
    /\ UNCHANGED <<buildVars, contextVars, pc, inputVars, external_coeffs,
                   internal_coeffs, inner_steps, denom, x_mutable, i, ci, cj,
                   outVars, traceVars, cmpVars, X, dim, R>>

\* The end of row i's inner loop.
flatten_next_row ==
    /\ pc = "flatten_loop"
    /\ i < X.rows
    /\ j = X.cols
    /\ i' = i + 1
    /\ j' = 0
    /\ UNCHANGED <<buildVars, contextVars, pc, inputVars, external_coeffs,
                   internal_coeffs, inner_steps, denom, x_mutable, ci, cj,
                   outVars, traceVars, utilVars>>

flatten_return ==
    /\ pc = "flatten_loop"
    /\ i = X.rows
    /\ pc' = "flatten_returned"
    /\ UNCHANGED <<buildVars, contextVars, inputVars, localVars, outVars,
                   traceVars, utilVars>>

\* The test passes flatten's result and X.cols() to unflatten.
test_flatten_unflatten ==
    /\ pc = "flatten_returned"
    /\ dim' = X.cols
    /\ pc' = "call_unflatten"
    /\ UNCHANGED <<buildVars, contextVars, inputVars, localVars, outVars,
                   traceVars, cmpVars, X, flat, R, writes>>

\* The place of X(r, c) in the storage of a matrix of the given row count.
storage_offset(rows, r, c) == r + c * rows

\* assert(x.size() % dim == 0); Eigen::MatrixXd X(x.size() / dim, dim),
\* sized and not initialized.
unflatten_call ==
    /\ pc = "call_unflatten"
    /\ dim > 0
    /\ IF Len(flat) % dim # 0 /\ ~ndebug
       THEN /\ pc' = "aborted"
            /\ UNCHANGED <<R, writes, i>>
       ELSE /\ R' = [rows |-> Len(flat) \div dim, cols |-> dim,
                     data |-> [k \in 1..((Len(flat) \div dim) * dim) |->
                                  Uninit]]
            /\ writes' = [k \in 1..((Len(flat) \div dim) * dim) |-> 0]
            /\ i' = 0
            /\ pc' = "unflatten_loop"
    /\ UNCHANGED <<buildVars, contextVars, inputVars, external_coeffs,
                   internal_coeffs, inner_steps, denom, x_mutable, j, ci, cj,
                   outVars, traceVars, cmpVars, X, flat, dim>>

\* x.size() % 0 and x.size() / 0 are undefined: the division traps, or it
\* yields quotient 0 and remainder x.size() and the call goes on with a
\* 0 x 0 matrix.
unflatten_undefined ==
    /\ pc = "call_unflatten"
    /\ dim = 0
    /\ \/ /\ pc' = "crashed"
          /\ UNCHANGED <<R, writes, i>>
       \/ /\ Len(flat) = 0 \/ ndebug
          /\ R' = [rows |-> 0, cols |-> 0, data |-> <<>>]
          /\ writes' = <<>>
          /\ i' = Len(flat)
          /\ pc' = "unflatten_loop"
    /\ UNCHANGED <<buildVars, contextVars, inputVars, external_coeffs,
                   internal_coeffs, inner_steps, denom, x_mutable, j, ci, cj,
                   outVars, traceVars, cmpVars, X, flat, dim>>

\* Variant: quotient and remainder exchanged (X(i % dim, i / dim)).
unflatten_index_swapped(k, d) == <<k % d, k \div d>>
\* The row and column unflatten writes x(k) to.
unflatten_index(k, d) == <<k \div d, k % d>>

\* X(i / dim, i % dim) = x(i)
unflatten_step ==
    /\ pc = "unflatten_loop"
    /\ i < Len(flat)
    /\ LET rc == unflatten_index(i, dim)
           off == storage_offset(R.rows, rc[1], rc[2])
       IN  /\ off < R.rows * R.cols
           /\ R' = [R EXCEPT !.data[off + 1] = flat[i + 1]]
           /\ writes' = [writes EXCEPT ![off + 1] = @ + 1]
    /\ i' = i + 1
    /\ UNCHANGED <<buildVars, contextVars, pc, inputVars, external_coeffs,
                   internal_coeffs, inner_steps, denom, x_mutable, j, ci, cj,
                   outVars, traceVars, cmpVars, X, flat, dim>>

unflatten_return ==
    /\ pc = "unflatten_loop"
    /\ i = Len(flat)
    /\ pc' = "unflatten_returned"
    /\ UNCHANGED <<buildVars, contextVars, inputVars, localVars, outVars,
                   traceVars, utilVars>>

\* The entries of the matrices flattened.
FlatVals == {Q(-1), Zero, Rat(1, 2)}

InitFlatten ==
    /\ ndebug \in BOOLEAN
    /\ impl = "switch"
    /\ op = "flatten"
    /\ pc = "call_flatten"
    /\ \E rows \in 0..MaxDim, cols \in 0..MaxDim :
          X \in {[rows |-> rows, cols |-> cols, data |-> d] :
                    d \in [1..(rows * cols) -> FlatVals]}
    /\ target = None /\ x = None /\ accuracy = None /\ eps = None
    /\ external_coeffs = None /\ internal_coeffs = None
    /\ inner_steps = None /\ denom = None /\ x_mutable = None
    /\ i = None /\ j = None /\ ci = None /\ cj = None
    /\ grad = <<>> /\ jac = None /\ hess = None
    /\ nevals = 0 /\ point = None /\ errors = <<>>
    /\ workers = None /\ sink = "discards"
    /\ tensor_order = None /\ prior = None
    /\ cx = None /\ cy = None /\ test_eps = None
    /\ same = None /\ log = <<>> /\ ncompared = 0
    /\ flat = None /\ dim = None /\ R = None /\ writes = None

NextFlatten ==
    \/ flatten_call
    \/ flatten_step
    \/ flatten_next_row
    \/ flatten_return
    \/ test_flatten_unflatten
    \/ unflatten_call
    \/ unflatten_undefined
    \/ unflatten_step
    \/ unflatten_return

SpecFlatten == InitFlatten /\ [][NextFlatten]_vars

(***************************************************************************)
(* finite_hessian on any target: the quadratics and the targets |bT v|.    *)
(***************************************************************************)
\* The vectors b of the targets |bT v|.
AbsVectors(n) == [1..n -> AVals]

InitHessianAny ==
    /\ ndebug = FALSE
    /\ impl = "switch"
    /\ op = "finite_hessian"
    /\ pc = "call_hessian"
    /\ \E n \in 0..MaxN :
          /\ x \in Points(n)
          /\ target \in
                {[kind |-> "quadratic", A |-> A, b |-> b] :
                    A \in LowerMatrices(n), b \in BVectors(n)}
                \cup {[kind |-> "absolute", b |-> b] : b \in AbsVectors(n)}
    /\ accuracy \in Orders
    /\ eps \in EpsVals
    /\ Idle

NextHessianAny ==
    \/ finite_hessian_call
    \/ finite_hessian_step
    \/ finite_hessian_divide
    \/ finite_hessian_return

SpecHessianAny == InitHessianAny /\ [][NextHessianAny]_vars

(***************************************************************************)
(* finite_jacobian_tensor<TensorOrder> and finite_jacobian<bool>.  The     *)
(* header declares finite_jacobian<IsTensorOrderEven> and defines the      *)
(* dispatch; the body of finite_jacobian<bool> is modelled from its        *)
(* documented layout: the stencil loop of finite_jacobian, with the        *)
(* derivative for coordinate k stored in the column block [q k, q k + q)   *)
(* of a p x (q n) matrix (even), or as column k of a (p q) x n matrix,     *)
(* vectorized column by column (odd).                                      *)
(***************************************************************************)
\* p and q of the test.
TensorRows == 2
TensorCols == 3

\* Variant: the parity test inverted (TensorOrder % 2 == 1).
IsTensorOrderEven_inverted(order) == order % 2 = 1
\* Variant: the template argument left out, so that the default
\* IsTensorOrderEven = true is taken.
IsTensorOrderEven_default(order) == TRUE
\* finite_jacobian<TensorOrder % 2 == 0>
IsTensorOrderEven(order) == order % 2 = 0

\* The shape <<rows, cols>> of the Jacobian of a p x q valued f of n inputs.
tensor_shape(even, n, p, q) == IF even THEN <<p, q * n>> ELSE <<p * q, n>>
\* The <<row, col>> of the derivative of f(a, b) with respect to x_k.
tensor_place(even, p, q, k, a, b) ==
    IF even THEN <<a, q * k + b>> ELSE <<a + p * b, k>>
\* The entries <<a, b>> of f stored at (r, c) for coordinate k.
tensor_source(even, p, q, k, r, c) ==
    {ab \in (0..(p - 1)) \X (0..(q - 1)) :
        tensor_place(even, p, q, k, ab[1], ab[2]) = <<r, c>>}
\* M with scale * F added to the block of coordinate k.
AddToBlock(M, even, k, scale, F) ==
    [M EXCEPT !.data =
        [e \in 1..Len(M.data) |->
            LET src == tensor_source(even, F.rows, F.cols, k,
                                     (e - 1) % M.rows, (e - 1) \div M.rows)
            IN  IF src = {} THEN M.data[e]
                ELSE LET ab == CHOOSE h \in src : TRUE
                     IN  RAdd(M.data[e], RMul(scale, At(F, ab[1], ab[2])))]]
\* M with the block of coordinate k divided by d.
DivBlock(M, even, k, d, p, q) ==
    [M EXCEPT !.data =
        [e \in 1..Len(M.data) |->
            IF tensor_source(even, p, q, k,
                             (e - 1) % M.rows, (e - 1) \div M.rows) = {}
            THEN M.data[e]
            ELSE RDiv(M.data[e], d)]]

finite_jacobian_tensor_call ==
    /\ pc = "call_jacobian_tensor"
    /\ IF accuracy \notin AccuracyOrder
       THEN /\ pc' = "invalid_argument"
            /\ UNCHANGED <<localVars, outVars, traceVars>>
       ELSE LET ext == get_external_coeffs(accuracy)
                int == get_interior_coeffs(accuracy)
                fx == Eval(target, x)
                shape == tensor_shape(IsTensorOrderEven(tensor_order),
                                      Len(x), fx.rows, fx.cols)
            IN  /\ external_coeffs' = Coeffs(ext)
                /\ internal_coeffs' = Coeffs(int)
                /\ inner_steps' = Len(int)
                /\ denom' = RMul(Q(get_denominator(accuracy)), eps)
                /\ jac' = ZeroMatrix(shape[1], shape[2])
                /\ nevals' = nevals + 1
                /\ point' = x
                /\ x_mutable' = x
                /\ i' = 0
                /\ ci' = 0
                /\ pc' = "tensor_loop"
                /\ UNCHANGED <<j, cj, grad, hess>>
    /\ UNCHANGED <<buildVars, contextVars, inputVars, utilVars>>

finite_jacobian_tensor_step ==
    /\ pc = "tensor_loop"
    /\ i < Len(x)
    /\ ci < inner_steps
    /\ LET perturbed ==
               perturb(x_mutable, i, internal_coeffs[ci + 1])
       IN  /\ jac' = AddToBlock(jac, IsTensorOrderEven(tensor_order), i,
                                external_coeffs[ci + 1],
                                Eval(target, perturbed))
           /\ point' = perturbed
           /\ x_mutable' = restore(perturbed, i, x)
    /\ nevals' = nevals + 1
    /\ ci' = ci + 1
    /\ UNCHANGED <<buildVars, contextVars, pc, inputVars, external_coeffs,
                   internal_coeffs, inner_steps, denom, i, j, cj, grad, hess,
                   utilVars>>

finite_jacobian_tensor_divide ==
    /\ pc = "tensor_loop"
    /\ i < Len(x)
    /\ ci = inner_steps
    /\ jac' = DivBlock(jac, IsTensorOrderEven(tensor_order), i, denom,
                       target.p, target.q)
    /\ i' = i + 1
    /\ ci' = 0
    /\ UNCHANGED <<buildVars, contextVars, pc, inputVars, external_coeffs,
                   internal_coeffs, inner_steps, denom, x_mutable, j, cj,
                   grad, hess, traceVars, utilVars>>

finite_jacobian_tensor_return ==
    /\ pc = "tensor_loop"
    /\ i = Len(x)
    /\ pc' = "tensor_returned"
    /\ UNCHANGED <<buildVars, contextVars, inputVars, localVars, outVars,
                   traceVars, utilVars>>

\* The test's analytic Jacobians: jac_odd.col(k) = T[k].reshaped() and
\* jac_even.middleCols(q * k, q) = T[k].
AnalyticTensorJacobian(f, n, order) ==
    IF order % 2 = 0
    THEN MatrixOf(f.p, f.q * n,
                  [r \in 0..(f.p - 1), c \in 0..(f.q * n - 1) |->
                      At(f.T[(c \div f.q) + 1], r, c % f.q)])
    ELSE MatrixOf(f.p * f.q, n,
                  [r \in 0..(f.p * f.q - 1), c \in 0..(n - 1) |->
                      f.T[c + 1].data[r + 1]])

test_tensor_compare ==
    /\ pc = "tensor_returned"
    /\ cx' = AnalyticTensorJacobian(target, Len(x), tensor_order)
    /\ cy' = jac
    /\ test_eps' = DefaultTestEps
    /\ LET res == compare_jacobian(cx', cy', test_eps', Zero)
       IN  /\ pc' = "tensor_test_" \o res.status
           /\ same' = res.same
           /\ log' = res.log
           /\ ncompared' = res.ncompared
    /\ UNCHANGED <<buildVars, contextVars, inputVars, localVars, outVars,
                   traceVars, flatVars>>

\* The slices T_k of the test, with entries that are all different:
\* T_k(a, b) = s * (1 + a + p b + p q k) for s = 1 and s = -1.
TensorSlices(n, p, q) ==
    {[k \in 1..n |->
         MatrixOf(p, q, [a \in 0..(p - 1), b \in 0..(q - 1) |->
                           Q(sgn * (1 + a + p * b + p * q * (k - 1)))])] :
        sgn \in {1, -1}}
\* The tensor orders of the test's calls.
TensorOrders == {3, 4}

InitTensor ==
    /\ ndebug = FALSE
    /\ impl = "switch"
    /\ op = "finite_jacobian_tensor"
    /\ pc = "call_jacobian_tensor"
    /\ \E n \in 0..MaxN :
          /\ x \in Points(n)
          /\ target \in {[kind |-> "tensor", T |-> T, p |-> TensorRows,
                           q |-> TensorCols] :
                            T \in TensorSlices(n, TensorRows, TensorCols)}
    /\ accuracy \in Orders
    /\ eps \in EpsVals
    /\ IdleLocals
    /\ grad = <<>> /\ jac = None /\ hess = None
    /\ prior = None
    /\ tensor_order \in TensorOrders

NextTensor ==
    \/ finite_jacobian_tensor_call
    \/ finite_jacobian_tensor_step
    \/ finite_jacobian_tensor_divide
    \/ finite_jacobian_tensor_return
    \/ test_tensor_compare

SpecTensor == InitTensor /\ [][NextTensor]_vars

(***************************************************************************)
(* finite_gradient on the polynomials f(v) = sum_k v_k^m, at integer       *)
(* points with step 1.                                                     *)
(***************************************************************************)
\* The degrees m.
Degrees == 0..8
\* Two integer points of each dimension: 0, 1, 2, ... and -1, -2, -3, ...
IntegerPoints(n) == {[k \in 1..n |-> Q(k - 1)], [k \in 1..n |-> Q(-k)]}

InitPolynomial ==
    /\ ndebug = FALSE
    /\ impl \in {"switch", "array"}
    /\ op = "finite_gradient"
    /\ pc = "call_gradient"
    /\ \E n \in 0..MaxN : x \in IntegerPoints(n)
    /\ target \in {[kind |-> "power", m |-> m] : m \in Degrees}
    /\ accuracy \in AccuracyOrder
    /\ eps = One
    /\ Idle

NextPolynomial ==
    \/ finite_gradient_call
    \/ finite_gradient_step
    \/ finite_gradient_divide
    \/ finite_gradient_return
    \/ finite_gradient_array_call
    \/ finite_gradient_array_step
    \/ finite_gradient_array_divide
    \/ finite_gradient_array_return

SpecPolynomial == InitPolynomial /\ [][NextPolynomial]_vars

(***************************************************************************)
(* The gradient of one target at one point with one step, computed with    *)
(* each accuracy order in turn (the tests generate SECOND, FOURTH, SIXTH,  *)
(* EIGHTH) and compared with the closed-form gradient.                     *)
(***************************************************************************)
\* The closed-form gradient of sum_k v_k^m: m * v_k^(m - 1).
PowerGradient(m, v) ==
    [k \in 1..Len(v) |->
        IF m = 0 THEN Zero ELSE RMul(Q(m), RPow(v[k], m - 1))]
\* |grad - fgrad|, entry by entry.
AbsoluteError(u, w) == [k \in 1..Len(u) |-> RAbs(RSub(u[k], w[k]))]

\* The gradient of one accuracy order is back: its error is recorded and
\* the next order is called, or the orders are through.
next_order ==
    /\ pc = "gradient_returned"
    /\ errors' = Append(errors,
                        AbsoluteError(PowerGradient(target.m, x), grad))
    /\ IF accuracy = EIGHTH
       THEN /\ pc' = "orders_done"
            /\ UNCHANGED accuracy
       ELSE /\ pc' = "call_gradient"
            /\ accuracy' = accuracy + 1
    /\ UNCHANGED <<buildVars, contextVars, target, x, eps, prior,
                   tensor_order, localVars, outVars, traceVars, utilVars>>

InitOrders ==
    /\ ndebug = FALSE
    /\ impl = "switch"
    /\ op = "finite_gradient"
    /\ pc = "call_gradient"
    /\ \E n \in 0..MaxN : x \in IntegerPoints(n)
    /\ target \in {[kind |-> "power", m |-> m] : m \in Degrees}
    /\ accuracy = SECOND
    /\ eps = One
    /\ Idle

NextOrders ==
    \/ finite_gradient_call
    \/ finite_gradient_step
    \/ finite_gradient_divide
    \/ finite_gradient_return
    \/ next_order

SpecOrders == InitOrders /\ [][NextOrders]_vars

(***************************************************************************)
(* The engines called with an output argument that already has a size and  *)
(* a content.                                                              *)
(***************************************************************************)
\* The sizes of the output argument before the call.
PriorSizes == {0, 1, MaxN}
\* The output vectors and matrices before the call, filled with 5.0.
PriorVectors == {[k \in 1..m |-> Q(5)] : m \in PriorSizes}
PriorMatrices ==
    {[rows |-> m, cols |-> m, data |-> [k \in 1..(m * m) |-> Q(5)]] :
        m \in PriorSizes}
\* The accuracy orders of these calls.
PriorOrders == {SECOND, FOURTH}

InitOutputs ==
    /\ ndebug = FALSE
    /\ tensor_order = None
    /\ accuracy \in PriorOrders
    /\ eps \in EpsVals
    /\ IdleLocals
    /\ \/ /\ impl \in {"switch", "array"}
          /\ op = "finite_gradient"
          /\ pc = "call_gradient"
          /\ \E n \in 0..MaxN :
                /\ x \in Points(n)
                /\ target \in {[kind |-> "quadratic", A |-> A, b |-> b] :
                                  A \in Matrices(n, n), b \in BVectors(n)}
          /\ prior \in PriorVectors
          /\ grad = prior /\ jac = None /\ hess = None
       \/ /\ impl = "switch"
          /\ op = "finite_jacobian"
          /\ pc = "call_jacobian"
          /\ \E n \in 0..MaxN, k \in 1..MaxN :
                /\ x \in Points(n)
                /\ target \in {[kind |-> "linear", A |-> A] :
                                  A \in Matrices(k, n)}
          /\ prior \in PriorMatrices
          /\ grad = <<>> /\ jac = prior /\ hess = None
       \/ /\ impl = "switch"
          /\ op = "finite_hessian"
          /\ pc = "call_hessian"
          /\ \E n \in 0..MaxN :
                /\ x \in Points(n)
                /\ target \in {[kind |-> "quadratic", A |-> A, b |-> b] :
                                  A \in LowerMatrices(n), b \in BVectors(n)}
          /\ prior \in PriorMatrices
          /\ grad = <<>> /\ jac = None /\ hess = prior

NextOutputs ==
    \/ finite_gradient_call
    \/ finite_gradient_step
    \/ finite_gradient_divide
    \/ finite_gradient_return
    \/ finite_gradient_array_call
    \/ finite_gradient_array_step
    \/ finite_gradient_array_divide
    \/ finite_gradient_array_return
    \/ finite_jacobian_call
    \/ finite_jacobian_step
    \/ finite_jacobian_divide
    \/ finite_jacobian_return
    \/ finite_hessian_call
    \/ finite_hessian_step
    \/ finite_hessian_divide
    \/ finite_hessian_return

SpecOutputs == InitOutputs /\ [][NextOutputs]_vars

(***************************************************************************)
(* unflatten called directly, with any length of x and any dim >= 0.       *)
(***************************************************************************)
\* X(i / dim, i % dim) = x(i) with the coefficient outside X's storage
\* (Eigen's index check is an assert as well): the write kills the process
\* or lands in memory that is not X's, and the loop goes on.
unflatten_step_outside ==
    /\ pc = "unflatten_loop"
    /\ i < Len(flat)
    /\ LET rc == unflatten_index(i, dim)
       IN  storage_offset(R.rows, rc[1], rc[2]) >= R.rows * R.cols
    /\ \/ /\ pc' = "crashed"
          /\ i' = i
       \/ /\ pc' = pc
          /\ i' = i + 1
    /\ UNCHANGED <<buildVars, contextVars, inputVars, external_coeffs,
                   internal_coeffs, inner_steps, denom, x_mutable, j, ci, cj,
                   outVars, traceVars, utilVars>>

\* The vectors unflatten is called with.
FlatVectors == UNION {[1..n -> FlatVals] : n \in 0..MaxLen}

InitUnflatten ==
    /\ ndebug \in BOOLEAN
    /\ impl = "switch"
    /\ op = "unflatten"
    /\ pc = "call_unflatten"
    /\ flat \in FlatVectors
    /\ dim \in 0..MaxDim
    /\ X = None /\ R = None /\ writes = None
    /\ target = None /\ x = None /\ accuracy = None /\ eps = None
    /\ external_coeffs = None /\ internal_coeffs = None
    /\ inner_steps = None /\ denom = None /\ x_mutable = None
    /\ i = None /\ j = None /\ ci = None /\ cj = None
    /\ grad = <<>> /\ jac = None /\ hess = None
    /\ nevals = 0 /\ point = None /\ errors = <<>>
    /\ workers = None /\ sink = "discards"
    /\ tensor_order = None /\ prior = None
    /\ cx = None /\ cy = None /\ test_eps = None
    /\ same = None /\ log = <<>> /\ ncompared = 0

NextUnflatten ==
    \/ unflatten_call
    \/ unflatten_undefined
    \/ unflatten_step
    \/ unflatten_step_outside
    \/ unflatten_return

SpecUnflatten == InitUnflatten /\ [][NextUnflatten]_vars

(***************************************************************************)
(* Claims.                                                                 *)
(***************************************************************************)
\* C1: for every accuracy order of the enumeration and every quadratic
\* f(x) = xT A x + bT x, the vector finite_gradient returns equals the
\* analytic gradient (A + AT) x + b entry by entry, and compare_gradient
\* with tolerance 1e-4 accepts the pair.
C1_GradientOfQuadratic ==
    /\ (pc = "gradient_returned" /\ accuracy \in AccuracyOrder)
          => grad = AnalyticGradient(target, x)
    /\ pc \in {"gradient_test_returned", "gradient_test_aborted",
               "gradient_test_crashed"}
          => /\ pc = "gradient_test_returned"
             /\ cy = grad
             /\ ncompared = Len(x)
             /\ same = TRUE

\* A gradient of a point of MaxN coordinates with a nonzero entry was
\* computed with the eighth-order stencil and eps = 1/2 and compared.
C1_Witness ==
    /\ pc = "gradient_test_returned"
    /\ Len(x) = MaxN
    /\ accuracy = EIGHTH
    /\ eps = Rat(1, 2)
    /\ nevals = 8 * MaxN
    /\ \E k \in 1..Len(grad) : grad[k] # Zero
    /\ At(target.A, 0, MaxN - 1) # At(target.A, MaxN - 1, 0)


\* C2: for every accuracy order of the enumeration and every linear
\* f(x) = A x, the matrix finite_jacobian returns has one row per entry of
\* f(x) and one column per entry of x, equals A entry by entry (column c
\* is the derivative of f with respect to coordinate c), and
\* compare_jacobian with tolerance 1e-4 accepts the pair.
C2_JacobianOfLinear ==
    /\ pc = "jacobian_returned"
          => /\ jac.rows = Len(Eval(target, x))
             /\ jac.cols = Len(x)
             /\ \A r \in 0..(jac.rows - 1), c \in 0..(jac.cols - 1) :
                   At(jac, r, c) = At(target.A, r, c)
    /\ pc \in {"jacobian_test_returned", "jacobian_test_aborted",
               "jacobian_test_crashed"}
          => /\ pc = "jacobian_test_returned"
             /\ cy = jac
             /\ ncompared = target.A.rows * target.A.cols
             /\ same = TRUE

\* The Jacobian of a linear function from MaxN coordinates to fewer
\* entries, with two differing columns, was computed with the sixth-order
\* stencil and compared.
C2_Witness ==
    /\ pc = "jacobian_test_returned"
    /\ Len(x) = MaxN
    /\ jac.rows < jac.cols
    /\ accuracy = SIXTH
    /\ nevals = 6 * MaxN + 1
    /\ At(jac, 0, 0) # At(jac, 0, MaxN - 1)

\* C3: for every accuracy order of the enumeration and every quadratic
\* f(x) = xT A x + bT x, the matrix finite_hessian returns equals A + AT
\* entry by entry, on and off the diagonal, and compare_hessian with
\* tolerance 1e-4 accepts the pair.
C3_HessianOfQuadratic ==
    /\ pc = "hessian_returned"
          => /\ hess.rows = Len(x)
             /\ hess.cols = Len(x)
             /\ \A r \in 0..(Len(x) - 1), c \in 0..(Len(x) - 1) :
                   At(hess, r, c) = RAdd(At(target.A, r, c),
                                         At(target.A, c, r))
    /\ pc \in {"hessian_test_returned", "hessian_test_aborted",
               "hessian_test_crashed"}
          => /\ pc = "hessian_test_returned"
             /\ cy = hess
             /\ ncompared = Len(x) * Len(x)
             /\ same = TRUE

\* The Hessian at a point of MaxN >= 2 coordinates, with a nonzero entry
\* off the diagonal and two differing entries on it, was computed with the
\* fourth-order stencil and compared.
C3_Witness ==
    /\ pc = "hessian_test_returned"
    /\ Len(x) = MaxN
    /\ MaxN >= 2
    /\ accuracy = FOURTH
    /\ At(hess, MaxN - 1, 0) # Zero
    /\ At(hess, 0, MaxN - 1) = At(hess, MaxN - 1, 0)
    /\ At(hess, 0, 0) # At(hess, MaxN - 1, MaxN - 1)


\* The stencils of the specification's table.
TableOuter(a) ==
    CASE a = SECOND -> <<1, -1>>
      [] a = FOURTH -> <<1, -8, 8, -1>>
      [] a = SIXTH -> <<-1, 9, -45, 45, -9, 1>>
      [] a = EIGHTH -> <<3, -32, 168, -672, 672, -168, 32, -3>>
TableInner(a) ==
    CASE a = SECOND -> <<1, -1>>
      [] a = FOURTH -> <<-2, -1, 1, 2>>
      [] a = SIXTH -> <<-3, -2, -1, 1, 2, 3>>
      [] a = EIGHTH -> <<-4, -3, -2, -1, 1, 2, 3, 4>>
TableDenominator(a) ==
    CASE a = SECOND -> 2
      [] a = FOURTH -> 12
      [] a = SIXTH -> 60
      [] a = EIGHTH -> 840
TableLength(a) ==
    CASE a = SECOND -> 2
      [] a = FOURTH -> 4
      [] a = SIXTH -> 6
      [] a = EIGHTH -> 8

\* C4: for each accuracy order the lookups (and the static arrays) return
\* exactly the table's outer coefficients, inner offsets and denominator;
\* in every engine the stencil in use is the table's, outer and inner have
\* the same length 2, 4, 6 or 8, and the size assert never fires.
C4_CoefficientTables ==
    /\ pc # "aborted"
    /\ \A a \in AccuracyOrder :
          /\ get_external_coeffs(a) = TableOuter(a)
          /\ get_interior_coeffs(a) = TableInner(a)
          /\ get_denominator(a) = TableDenominator(a)
          /\ coeff[a + 1] = TableOuter(a)
          /\ coeff2[a + 1] = TableInner(a)
          /\ dd[a + 1] = TableDenominator(a)
          /\ innerSteps(a) = TableLength(a)
    /\ (accuracy \in AccuracyOrder
          /\ pc \notin {"call_gradient", "call_jacobian", "call_hessian"})
          => /\ external_coeffs = Coeffs(TableOuter(accuracy))
             /\ internal_coeffs = Coeffs(TableInner(accuracy))
             /\ inner_steps = TableLength(accuracy)
             /\ Len(external_coeffs) = inner_steps
             /\ Len(internal_coeffs) = inner_steps
             /\ LET d == RMul(Q(TableDenominator(accuracy)), eps)
                IN  denom = IF op = "finite_hessian" THEN RMul(d, d) ELSE d

\* finite_hessian is inside its loops with the eighth-order stencil of
\* length 8 in use.
C4_Witness ==
    /\ op = "finite_hessian"
    /\ pc = "hessian_loop"
    /\ accuracy = EIGHTH
    /\ inner_steps = 8
    /\ ci = 7
    /\ cj = 7

\* C5: a call of an engine with an accuracy order outside the enumeration
\* ends with the "invalid accuracy order" error, and in no other way.
C5_InvalidOrderFails ==
    accuracy \notin AccuracyOrder
       => pc \in {"call_gradient", "call_jacobian", "call_hessian",
                  "invalid_argument"}

\* The two containers of the comparison have the same shape.
SameShape ==
    IF op = "compare_gradient"
    THEN Len(cx) = Len(cy)
    ELSE cx.rows = cy.rows /\ cx.cols = cy.cols
\* Its element pairs <<x, y>>, for containers of the same shape.
ElementPairs ==
    IF op = "compare_gradient"
    THEN {<<cx[k], cy[k]>> : k \in 1..Len(cx)}
    ELSE {<<cx.data[k], cy.data[k]>> : k \in 1..Len(cx.data)}
\* |a - b| <= t * max(|a|, |b|, 1.0)
Bound(a, b, t) ==
    LET m == IF RGt(RAbs(a), RAbs(b)) THEN RAbs(a) ELSE RAbs(b)
    IN  RMul(t, IF RGt(One, m) THEN One ELSE m)
Within(a, b, t) ==
    LET d == IF RGt(a, b) THEN RSub(a, b) ELSE RSub(b, a)
    IN  ~RGt(d, Bound(a, b, t))

\* C6: for two containers of the same shape the comparison returns, and
\* returns true if and only if every element pair is within
\* test_eps * max(|x|, |y|, 1.0), the bound included; for empty containers
\* it returns true.
C6_CompareIffWithin ==
    (pc # "call_compare" /\ SameShape)
       => /\ pc = "compare_returned"
          /\ same = (\A p \in ElementPairs : Within(p[1], p[2], test_eps))
          /\ ncompared = Cardinality(DOMAIN (IF op = "compare_gradient"
                                             THEN cx ELSE cx.data))

\* A comparison returned true with an element pair that differs by
\* exactly the bound.
C6_Witness ==
    /\ pc = "compare_returned"
    /\ op = "compare_jacobian"
    /\ SameShape
    /\ cx.rows = MaxDim
    /\ same = TRUE
    /\ \E p \in ElementPairs :
          /\ p[1] # p[2]
          /\ RAbs(RSub(p[1], p[2])) = Bound(p[1], p[2], test_eps)

\* C7: compare_jacobian called with matrices of different shape returns
\* false, without aborting and without reading outside either matrix.
C7_MismatchReturnsFalse ==
    (op = "compare_jacobian" /\ pc # "call_compare" /\ ~SameShape)
       => /\ pc = "compare_returned"
          /\ ~ReadsOutside(cx, cy)
          /\ same = FALSE

\* C8: in the comparison routines a shape mismatch ends the call in an
\* error state before any element is compared; no boolean is reported.
C8_MismatchFailsFast ==
    (pc # "call_compare" /\ ~SameShape)
       => /\ pc = "compare_aborted"
          /\ ncompared = 0

\* C9: for every matrix X with at least one column,
\* unflatten(flatten(X), X.cols()) has the shape and the entries of X.
C9_RoundTrip ==
    (pc = "unflatten_returned" /\ X.cols >= 1)
       => /\ R.rows = X.rows
          /\ R.cols = X.cols
          /\ \A r \in 0..(X.rows - 1), c \in 0..(X.cols - 1) :
                At(R, r, c) = At(X, r, c)

\* The round trip of a MaxDim x MaxDim matrix that is not symmetric
\* returned.
C9_Witness ==
    /\ pc = "unflatten_returned"
    /\ X.rows = MaxDim
    /\ X.cols = MaxDim
    /\ MaxDim >= 2
    /\ At(X, 0, 1) # At(X, 1, 0)
    /\ At(R, 0, 1) = At(X, 0, 1)

\* C10: flatten of an r x c matrix returns a vector of r * c entries with
\* entry i * c + j equal to X(i, j), and writes every entry exactly once
\* (never twice on the way).
C10_FlattenRowMajor ==
    /\ pc = "flatten_loop"
          => \A k \in 1..Len(writes) : writes[k] <= 1
    /\ pc = "flatten_returned"
          => /\ Len(flat) = X.rows * X.cols
             /\ \A r \in 0..(X.rows - 1), c \in 0..(X.cols - 1) :
                   flat[r * X.cols + c + 1] = At(X, r, c)
             /\ \A k \in 1..Len(flat) : writes[k] = 1

\* flatten of a MaxDim x MaxDim matrix whose row-major and column-major
\* orders differ returned.
C10_Witness ==
    /\ pc = "flatten_returned"
    /\ X.rows = MaxDim
    /\ X.cols = MaxDim
    /\ MaxDim >= 2
    /\ At(X, 0, 1) # At(X, 1, 0)
    /\ flat[2] = At(X, 0, 1)

\* C11: unflatten(x, dim) with dim >= 1 fails when the length of x is not
\* a multiple of dim; otherwise it returns the (len(x) / dim) x dim matrix
\* with X(i / dim, i % dim) = x(i) for every i.
C11_UnflattenContract ==
    (op = "unflatten" /\ dim >= 1
        /\ pc \notin {"call_unflatten", "unflatten_loop"})
       => IF Len(flat) % dim # 0
          THEN pc \in {"aborted", "crashed"}
          ELSE /\ pc = "unflatten_returned"
               /\ R.rows = Len(flat) \div dim
               /\ R.cols = dim
               /\ \A k \in 0..(Len(flat) - 1) :
                     At(R, k \div dim, k % dim) = flat[k + 1]

\* The pair (r, c), r <= c, is behind the loops of finite_hessian.
PairDone(r, c) == r < i \/ (r = i /\ c < j)

\* C12: finite_hessian evaluates the target only inside pairs (i, j) with
\* i <= j; an entry below the diagonal is zero until its pair is done and
\* the copy of hess(i, j) after; the matrix returned is n x n and
\* hess(i, j) = hess(j, i) for all i, j, for every target.
C12_HessianSymmetric ==
    /\ (op = "finite_hessian" /\ pc = "hessian_loop")
          => /\ i <= j
             /\ \A r \in 0..(Len(x) - 1), c \in 0..(Len(x) - 1) :
                   r < c => At(hess, c, r) =
                               IF PairDone(r, c) THEN At(hess, r, c)
                               ELSE Zero
    /\ (op = "finite_hessian" /\ pc = "hessian_returned")
          => /\ hess.rows = Len(x)
             /\ hess.cols = Len(x)
             /\ \A r \in 0..(Len(x) - 1), c \in 0..(Len(x) - 1) :
                   At(hess, r, c) = At(hess, c, r)

\* finite_hessian returned a MaxN x MaxN matrix with a nonzero entry off
\* the diagonal for a target |bT v|.
C12_Witness ==
    /\ pc = "hessian_returned"
    /\ target.kind = "absolute"
    /\ Len(x) = MaxN
    /\ MaxN >= 2
    /\ At(hess, 0, 1) # Zero
    /\ At(hess, 1, 0) = At(hess, 0, 1)
    /\ At(hess, 0, 0) # At(hess, 1, 1)

\* C13: for a point of dimension n >= 0 and a stencil of length s,
\* finite_gradient returns after exactly n * s evaluations of the target
\* and finite_jacobian after exactly n * s + 1 (one for the shape probe);
\* inside the loops the count is i * s + ci (plus the probe).
C13_EvaluationCount ==
    /\ (pc = "gradient_loop" /\ accuracy \in AccuracyOrder)
          => nevals = i * TableLength(accuracy) + ci
    /\ (pc = "gradient_returned" /\ accuracy \in AccuracyOrder)
          => nevals = Len(x) * TableLength(accuracy)
    /\ pc = "jacobian_loop"
          => nevals = i * TableLength(accuracy) + ci + 1
    /\ pc = "jacobian_returned"
          => nevals = Len(x) * TableLength(accuracy) + 1

\* finite_jacobian returned for a point of dimension MaxN after
\* 8 * MaxN + 1 evaluations with the eighth-order stencil.
C13_Witness ==
    /\ op = "finite_jacobian"
    /\ pc = "jacobian_returned"
    /\ Len(x) = MaxN
    /\ accuracy = EIGHTH
    /\ nevals = 8 * MaxN + 1
    /\ jac.rows = MaxN

\* The number of pairs (r, c), r <= c < n, before the pair (i, j).
PairsBefore(n) == i * n - (i * (i - 1)) \div 2 + (j - i)

\* C14: for a point of dimension n and a stencil of length s,
\* finite_hessian returns after exactly n * (n + 1) / 2 * s^2 evaluations
\* of the target; inside the loops the count is s^2 for each pair done
\* plus ci * s + cj.
C14_HessianEvaluationCount ==
    /\ (op = "finite_hessian" /\ pc = "hessian_loop")
          => nevals = PairsBefore(Len(x)) * TableLength(accuracy)
                                          * TableLength(accuracy)
                      + ci * TableLength(accuracy) + cj
    /\ (op = "finite_hessian"
          /\ pc \in {"hessian_returned", "hessian_test_returned"})
          => nevals = ((Len(x) * (Len(x) + 1)) \div 2)
                         * TableLength(accuracy) * TableLength(accuracy)

\* finite_hessian returned for a point of dimension MaxN after
\* MaxN * (MaxN + 1) / 2 * 64 evaluations with the eighth-order stencil.
C14_Witness ==
    /\ op = "finite_hessian"
    /\ pc = "hessian_returned"
    /\ Len(x) = MaxN
    /\ accuracy = EIGHTH
    /\ nevals = ((MaxN * (MaxN + 1)) \div 2) * 64
    /\ nevals > 64

\* C15: whatever size and content the output argument had, the engines
\* size it anew (n entries; k x n with k the row count of f(x); n x n),
\* every entry is zero until its accumulation starts, and the derivative
\* returned is the one the target determines, the same for every prior
\* output.
C15_OutputFresh ==
    /\ (op = "finite_gradient" /\ pc = "gradient_loop")
          => /\ Len(grad) = Len(x)
             /\ \A k \in 0..(Len(x) - 1) :
                   (impl = "switch" /\ (k > i \/ (k = i /\ ci = 0)))
                      => grad[k + 1] = Zero
    /\ (op = "finite_gradient" /\ pc = "gradient_returned")
          => grad = AnalyticGradient(target, x)
    /\ (op = "finite_jacobian" /\ pc = "jacobian_loop")
          => /\ jac.rows = target.A.rows
             /\ jac.cols = Len(x)
             /\ \A r \in 0..(jac.rows - 1), c \in 0..(Len(x) - 1) :
                   (c > i \/ (c = i /\ ci = 0)) => At(jac, r, c) = Zero
    /\ (op = "finite_jacobian" /\ pc = "jacobian_returned")
          => jac = target.A
    /\ (op = "finite_hessian" /\ pc = "hessian_loop")
          => /\ hess.rows = Len(x)
             /\ hess.cols = Len(x)
             /\ \A r \in 0..(Len(x) - 1), c \in 0..(Len(x) - 1) :
                   (r <= c /\ ~PairDone(r, c)
                       /\ ~(r = i /\ c = j /\ ci + cj > 0))
                      => (At(hess, r, c) = Zero /\ At(hess, c, r) = Zero)
    /\ (op = "finite_hessian" /\ pc = "hessian_returned")
          => hess = AnalyticHessian(target)

\* finite_gradient returned the gradient of the target in an output
\* argument that came in with MaxN entries 5.0.
C15_Witness ==
    /\ op = "finite_gradient"
    /\ pc = "gradient_returned"
    /\ impl = "switch"
    /\ Len(x) = MaxN
    /\ Len(prior) = MaxN
    /\ MaxN >= 1
    /\ prior[1] = Q(5)
    /\ \A k \in 1..MaxN : grad[k] # prior[k]

\* C16: for f from n inputs to p x q matrices, finite_jacobian_tensor
\* with an even tensor order returns a p x (q n) matrix whose columns
\* q k .. q k + q - 1 hold the p x q derivative of f with respect to
\* coordinate k (T_k for f = sum_k x_k T_k), for every k < n.
C16_TensorEvenLayout ==
    (op = "finite_jacobian_tensor" /\ tensor_order % 2 = 0
        /\ pc \in {"tensor_returned", "tensor_test_returned",
                   "tensor_test_aborted", "tensor_test_crashed"})
       => /\ jac.rows = target.p
          /\ jac.cols = target.q * Len(x)
          /\ \A k \in 0..(Len(x) - 1), a \in 0..(target.p - 1),
                b \in 0..(target.q - 1) :
                At(jac, a, target.q * k + b) = At(target.T[k + 1], a, b)
          /\ pc # "tensor_returned"
                => (pc = "tensor_test_returned" /\ same = TRUE)

\* The even layout was returned and accepted by the test for MaxN
\* inputs, with the first entry of the last block in place.
C16_Witness ==
    /\ pc = "tensor_test_returned"
    /\ tensor_order = 4
    /\ Len(x) = MaxN
    /\ MaxN >= 2
    /\ accuracy = SIXTH
    /\ jac.cols = TensorCols * MaxN
    /\ At(jac, 0, TensorCols * (MaxN - 1)) = At(target.T[MaxN], 0, 0)
    /\ At(jac, 0, TensorCols * (MaxN - 1)) # At(jac, 0, MaxN - 1)

\* C17: with an odd tensor order finite_jacobian_tensor returns a
\* (p q) x n matrix whose column k holds the derivative of f with respect
\* to coordinate k vectorized column by column: entry (a, b) at row
\* a + p b, for every k < n.
C17_TensorOddLayout ==
    (op = "finite_jacobian_tensor" /\ tensor_order % 2 = 1
        /\ pc \in {"tensor_returned", "tensor_test_returned",
                   "tensor_test_aborted", "tensor_test_crashed"})
       => /\ jac.rows = target.p * target.q
          /\ jac.cols = Len(x)
          /\ \A k \in 0..(Len(x) - 1), a \in 0..(target.p - 1),
                b \in 0..(target.q - 1) :
                At(jac, a + target.p * b, k) = At(target.T[k + 1], a, b)
          /\ pc # "tensor_returned"
                => (pc = "tensor_test_returned" /\ same = TRUE)

\* The odd layout was returned and accepted by the test for MaxN inputs,
\* with the entry (0, 1) of the last slice at row p, not at row 1.
C17_Witness ==
    /\ pc = "tensor_test_returned"
    /\ tensor_order = 3
    /\ Len(x) = MaxN
    /\ MaxN >= 2
    /\ accuracy = EIGHTH
    /\ jac.rows = TensorRows * TensorCols
    /\ At(jac, TensorRows, MaxN - 1) = At(target.T[MaxN], 0, 1)
    /\ At(jac, 1, MaxN - 1) # At(target.T[MaxN], 0, 1)

\* sum_j outer[j] * inner[j]^k, for integer stencils.
RECURSIVE IPow(_, _)
IPow(a, k) == IF k = 0 THEN 1 ELSE a * IPow(a, k - 1)
RECURSIVE MomentTo(_, _, _, _)
MomentTo(outer, inner, k, m) ==
    IF m = 0 THEN 0
    ELSE MomentTo(outer, inner, k, m - 1) + outer[m] * IPow(inner[m], k)
Moment(outer, inner, k) == MomentTo(outer, inner, k, Len(outer))
\* The order conditions of a first-derivative stencil of order p.
OrderConditions(outer, inner, den, p) ==
    /\ Len(inner) = Len(outer)
    /\ Moment(outer, inner, 0) = 0
    /\ Moment(outer, inner, 1) = den
    /\ \A k \in 2..p : Moment(outer, inner, k) = 0
\* The order p the name of an accuracy order states.
StatedOrder(a) ==
    CASE a = SECOND -> 2
      [] a = FOURTH -> 4
      [] a = SIXTH -> 6
      [] a = EIGHTH -> 8

\* C18: for each accuracy order, of stated order p, the stencil (outer,
\* inner, denominator) of the lookups and of the static arrays has
\* sum outer = 0, sum outer * inner = denominator and
\* sum outer * inner^k = 0 for 2 <= k <= p; and the gradient
\* finite_gradient returns for sum_k v_k^m, m <= p, is exactly
\* m * x_k^(m - 1) in every coordinate.
C18_StencilOrder ==
    /\ \A a \in AccuracyOrder :
          /\ OrderConditions(get_external_coeffs(a), get_interior_coeffs(a),
                             get_denominator(a), StatedOrder(a))
          /\ OrderConditions(coeff[a + 1], coeff2[a + 1], dd[a + 1],
                             StatedOrder(a))
    /\ (pc = "gradient_returned" /\ target.kind = "power"
          /\ target.m <= StatedOrder(accuracy))
          => \A k \in 1..Len(x) :
                grad[k] = IF target.m = 0 THEN Zero
                          ELSE RMul(Q(target.m), RPow(x[k], target.m - 1))

\* The eighth-order stencil returned the exact gradient of a polynomial
\* of degree 8 at a point of dimension MaxN with nonzero coordinates.
C18_Witness ==
    /\ pc = "gradient_returned"
    /\ impl = "switch"
    /\ target.kind = "power"
    /\ target.m = 8
    /\ accuracy = EIGHTH
    /\ Len(x) = MaxN
    /\ \A k \in 1..MaxN : grad[k] # Zero /\ grad[k] = RMul(Q(8), RPow(x[k], 7))

\* The index in errors of an accuracy order.
ErrorOf(a) == errors[a + 1]

\* C19 as stated: at a fixed step and for a smooth target, the absolute
\* error of the gradient with a higher accuracy order never exceeds the
\* error with a lower order.
C19_ErrorMonotone ==
    pc = "orders_done"
       => \A lo \in AccuracyOrder, hi \in AccuracyOrder :
             lo < hi => \A k \in 1..Len(x) :
                           RLeq(ErrorOf(hi)[k], ErrorOf(lo)[k])

\* C19 amended: for a polynomial target of degree m, an accuracy order of
\* stated order p >= m has error zero, so its error never exceeds the
\* error of a lower order; nothing is said of orders below the degree.
C19_ErrorMonotoneUpToDegree ==
    pc = "orders_done"
       => \A lo \in AccuracyOrder, hi \in AccuracyOrder :
             (lo < hi /\ target.m <= StatedOrder(hi))
                => \A k \in 1..Len(x) :
                      /\ ErrorOf(hi)[k] = Zero
                      /\ RLeq(ErrorOf(hi)[k], ErrorOf(lo)[k])

\* The four orders are through for a cubic at a point of dimension MaxN:
\* SECOND is off by eps^2 = 1 in every coordinate, the higher orders are
\* exact.
C19_Witness ==
    /\ pc = "orders_done"
    /\ target.m = 3
    /\ Len(x) = MaxN
    /\ Len(errors) = 4
    /\ \A k \in 1..MaxN : ErrorOf(SECOND)[k] = One /\ ErrorOf(FOURTH)[k] = Zero

\* The point x with coordinate k (counted from 0) moved by c * eps.
Moved(v, k, c) == [v EXCEPT ![k + 1] = RAdd(@, RMul(c, eps))]
\* The engine's call is inside its loops.
InLoops ==
    pc \in {"gradient_loop", "jacobian_loop", "hessian_loop"}
       /\ accuracy \in AccuracyOrder
\* One evaluation inside the loops: the point f receives and the working
\* copy after the step.
EvaluationStep ==
    (InLoops /\ nevals' = nevals + 1)
       => /\ x_mutable' = x
          /\ IF op = "finite_hessian"
             THEN /\ point' = Moved(Moved(x, i, internal_coeffs[ci + 1]),
                                    j, internal_coeffs[cj + 1])
                  /\ \A k \in 0..(Len(x) - 1) :
                        (k # i /\ k # j) => point'[k + 1] = x[k + 1]
             ELSE /\ point' = Moved(x, i, internal_coeffs[ci + 1])
                  /\ \A k \in 0..(Len(x) - 1) :
                        k # i => point'[k + 1] = x[k + 1]
                  /\ point'[i + 1] # x[i + 1]

\* C20: perturbations never compound: every evaluation inside the loops
\* of finite_gradient and finite_jacobian receives x moved in coordinate i
\* alone, by exactly inner[ci] * eps, every evaluation of finite_hessian
\* receives x moved in coordinates i and j alone, and between the steps
\* the working copy is x in every coordinate.
C20_NoCompounding ==
    /\ [](InLoops => x_mutable = x)
    /\ [][EvaluationStep]_vars

\* finite_hessian has evaluated the target at a point moved in the first
\* and in the last coordinate, and the working copy is x again.
C20_Witness ==
    /\ op = "finite_hessian"
    /\ pc = "hessian_loop"
    /\ Len(x) = MaxN
    /\ MaxN >= 2
    /\ accuracy = EIGHTH
    /\ nevals > 0
    /\ i = 0
    /\ j = MaxN - 1
    /\ point[1] # x[1]
    /\ point[MaxN] # x[MaxN]
    /\ x_mutable = x

(***************************************************************************)
(* finite_gradient and finite_jacobian together: the engines with the      *)
(* single loop over the coordinates.                                       *)
(***************************************************************************)
InitFirstOrder == InitGradient \/ InitJacobian
NextFirstOrder == NextGradient \/ NextJacobian
SpecFirstOrder == InitFirstOrder /\ [][NextFirstOrder]_vars

\* The evaluations before the loop: the shape probe of finite_jacobian.
Probes == IF op = "finite_jacobian" THEN 1 ELSE 0
\* The point of the m-th evaluation of the loop (m from 0) with a stencil
\* of s steps.
LoopPoint(m, s) == Moved(x, m \div s, internal_coeffs[(m % s) + 1])
\* The evaluations so far, in order: the latest one is where its number
\* puts it.
LatestInOrder ==
    (op \in {"finite_gradient", "finite_jacobian"}
        /\ accuracy \in AccuracyOrder /\ nevals > 0)
       => IF nevals <= Probes
          THEN point = x
          ELSE point = LoopPoint(nevals - Probes - 1, Len(internal_coeffs))
\* Entry k of the gradient, or column k of the Jacobian, as a function of
\* the row.
OutputColumn(g, J, k) ==
    IF op = "finite_gradient"
    THEN [r \in {0} |-> g[k + 1]]
    ELSE [r \in 0..(J.rows - 1) |-> At(J, r, k)]
\* A step of the loop: an evaluation belongs to the coordinate whose turn
\* it is and leaves the other columns alone; the division of column i comes
\* after exactly s evaluations of coordinate i, divides column i by
\* denominator * eps and nothing else, and no evaluation happens with it.
LoopStepInOrder ==
    (pc \in {"gradient_loop", "jacobian_loop"} /\ accuracy \in AccuracyOrder)
       => LET s == Len(internal_coeffs)
              m == nevals - Probes
              d == RMul(Q(TableDenominator(accuracy)), eps)
          IN  /\ nevals' = nevals + 1
                    => /\ m \div s = i
                       /\ i' = i
                       /\ \A k \in 0..(Len(x) - 1) :
                             k # i => OutputColumn(grad', jac', k)
                                         = OutputColumn(grad, jac, k)
              /\ (nevals' = nevals /\ pc' = pc /\ <<grad, jac>>' # <<grad, jac>>)
                    => /\ m = (i + 1) * s
                       /\ i' = i + 1
              /\ i' # i
                    => /\ m = (i + 1) * s
                       /\ nevals' = nevals
                       /\ \A k \in 0..(Len(x) - 1) :
                             OutputColumn(grad', jac', k)
                                = IF k = i
                                  THEN [r \in DOMAIN OutputColumn(grad, jac, k)
                                          |-> RDiv(OutputColumn(grad, jac, k)[r],
                                                   d)]
                                  ELSE OutputColumn(grad, jac, k)

\* C21: the evaluations happen in coordinate-ascending, step-ascending
\* order: the m-th evaluation of finite_gradient is at
\* x + inner[m mod s] * eps * e_(m div s); finite_jacobian first evaluates
\* the shape probe at x and then follows the same order; entry or column i
\* is divided by denominator * eps after all s steps of coordinate i and
\* before any step of coordinate i + 1.
C21_EvaluationOrder ==
    /\ []LatestInOrder
    /\ [][LoopStepInOrder]_vars

\* finite_jacobian has divided column 0 and has made the first evaluation
\* of coordinate 1, at x moved in coordinate 1 by inner[0] * eps.
C21_Witness ==
    /\ op = "finite_jacobian"
    /\ pc = "jacobian_loop"
    /\ accuracy = FOURTH
    /\ Len(x) = MaxN
    /\ MaxN >= 2
    /\ i = 1
    /\ ci = 1
    /\ nevals = Len(internal_coeffs) + 2
    /\ point = Moved(x, 1, Q(TableInner(FOURTH)[1]))
    /\ point # x

\* The 1-D first-derivative stencil of order a, along coordinate k,
\* applied to the function g of a point: sum of outer[c] * g(v + inner[c]
\* * eps * e_k), divided by denominator * eps.
Stencil1D(G(_), v, k, a) ==
    LET s == TableLength(a)
    IN  RDiv(SumTo([c \in 0..(s - 1) |->
                       RMul(Q(TableOuter(a)[c + 1]),
                            G(Moved(v, k, Q(TableInner(a)[c + 1]))))], s),
             RMul(Q(TableDenominator(a)), eps))
\* The stencil applied to the stencil of f along coordinate k.
NestedStencil(f, v, k, a) ==
    LET Inner(w) ==
            LET F(u) == Eval(f, u)
            IN  Stencil1D(F, w, k, a)
    IN  Stencil1D(Inner, v, k, a)
\* A (ci, cj) step of a diagonal pair: the one coordinate i has moved by
\* (inner[ci] + inner[cj]) * eps.
DiagonalStep ==
    (op = "finite_hessian" /\ pc = "hessian_loop"
        /\ nevals' = nevals + 1 /\ i = j)
       => /\ point' = Moved(x, i, Q(TableInner(accuracy)[ci + 1]
                                     + TableInner(accuracy)[cj + 1]))
          /\ ci < TableLength(accuracy)
          /\ cj < TableLength(accuracy)
          /\ <<ci', cj'>> = IF cj + 1 < TableLength(accuracy)
                            THEN <<ci, cj + 1>>
                            ELSE <<ci + 1, 0>>

\* C22: on the diagonal finite_hessian runs the same two-index loop: each
\* (ci, cj) step evaluates the target with the single coordinate i moved by
\* (inner[ci] + inner[cj]) * eps, and the resulting hess(i, i) is the
\* first-derivative stencil applied to the first-derivative stencil of f
\* along coordinate i (the double sum divided by (denominator * eps)^2
\* once).
C22_DiagonalIsNestedStencil ==
    /\ [][DiagonalStep]_vars
    /\ []((op = "finite_hessian"
             /\ pc \in {"hessian_loop", "hessian_returned"}
             /\ ci = 0 /\ cj = 0)
            => \A k \in 0..(Len(x) - 1) :
                  PairDone(k, k)
                     => At(hess, k, k) = NestedStencil(target, x, k, accuracy))

\* finite_hessian returned, for a quadratic target at a point of MaxN
\* coordinates and with the fourth-order stencil, a diagonal whose entries
\* are nonzero and are the nested stencils.
C22_Witness ==
    /\ op = "finite_hessian"
    /\ pc = "hessian_returned"
    /\ accuracy = FOURTH
    /\ target.kind = "quadratic"
    /\ Len(x) = MaxN
    /\ MaxN >= 1
    /\ nevals > 0
    /\ \A k \in 0..(MaxN - 1) :
          /\ At(hess, k, k) # Zero
          /\ At(hess, k, k) = NestedStencil(target, x, k, FOURTH)

(***************************************************************************)
(* The loop over the coordinates of finite_gradient and finite_jacobian    *)
(* run by parallel workers.  Worker w runs iteration w of the loop, the    *)
(* loop body as it stands, on its own working copy of x; the workers'      *)
(* stencil steps and divisions interleave freely.  The same calls run      *)
(* sequentially are part of the specification.                             *)
(***************************************************************************)
\* The output after jac.col(c) += scale * w, or grad[c] += scale * w.
Accumulated(c, scale, w) ==
    IF op = "finite_gradient"
    THEN <<[grad EXCEPT ![c + 1] = RAdd(@, RMul(scale, w))], jac>>
    ELSE <<grad, AddToCol(jac, c, scale, w)>>
\* The output after grad[c] /= d, or jac.col(c) /= d.
Divided(c, d) ==
    IF op = "finite_gradient"
    THEN <<[grad EXCEPT ![c + 1] = RDiv(@, d)], jac>>
    ELSE <<grad, DivCol(jac, c, d)>>
\* The entries of the gradient, or the columns of the Jacobian, in which
\* the outputs <<g, J>> and <<h, K>> differ.
Touched(g, J, h, K) ==
    IF op = "finite_gradient"
    THEN {c \in 0..(Len(g) - 1) : g[c + 1] # h[c + 1]}
    ELSE {c \in 0..(J.cols - 1) :
             \E r \in 0..(J.rows - 1) : At(J, r, c) # At(K, r, c)}

\* The call up to the loop, and the start of the workers: each one's
\* working copy is a copy of x.
parallel_call ==
    /\ pc = "call_parallel"
    /\ IF accuracy \notin AccuracyOrder
       THEN /\ pc' = "invalid_argument"
            /\ UNCHANGED <<external_coeffs, internal_coeffs, inner_steps,
                           denom, grad, jac, traceVars, workers>>
       ELSE /\ external_coeffs' = Coeffs(get_external_coeffs(accuracy))
            /\ internal_coeffs' = Coeffs(get_interior_coeffs(accuracy))
            /\ inner_steps' = Len(get_interior_coeffs(accuracy))
            /\ denom' = RMul(Q(get_denominator(accuracy)), eps)
            /\ IF op = "finite_gradient"
               THEN /\ grad' = ZeroVector(Len(x))
                    /\ UNCHANGED <<jac, traceVars>>
               ELSE /\ jac' = ZeroMatrix(Len(Eval(target, x)), Len(x))
                    /\ nevals' = nevals + 1
                    /\ point' = x
                    /\ UNCHANGED grad
            /\ workers' = [w \in 0..(Len(x) - 1) |->
                              [x_mutable |-> x, ci |-> 0, evaluated |-> <<>>,
                               written |-> {}, done |-> FALSE]]
            /\ pc' = "parallel_loop"
    /\ UNCHANGED <<buildVars, sink, inputVars, x_mutable, i, j, ci, cj,
                   hess, utilVars>>

\* One stencil step of worker w: perturb coordinate w of its copy,
\* evaluate, accumulate into entry or column w, restore.
worker_step(w) ==
    /\ pc = "parallel_loop"
    /\ ~workers[w].done
    /\ workers[w].ci < inner_steps
    /\ LET me == workers[w]
           perturbed ==
               perturb(me.x_mutable, w, internal_coeffs[me.ci + 1])
           out == Accumulated(w, external_coeffs[me.ci + 1],
                              Eval(target, perturbed))
       IN  /\ grad' = out[1]
           /\ jac' = out[2]
           /\ point' = perturbed
           /\ workers' =
                 [workers EXCEPT
                     ![w] = [x_mutable |-> restore(perturbed, w, x),
                             ci |-> me.ci + 1,
                             evaluated |-> Append(me.evaluated, perturbed),
                             written |-> me.written \cup {w}
                                 \cup Touched(grad, jac, out[1], out[2]),
                             done |-> FALSE]]
    /\ nevals' = nevals + 1
    /\ UNCHANGED <<buildVars, sink, pc, inputVars, localVars, hess,
                   utilVars>>

\* The end of worker w's stencil: the division of entry or column w.
worker_divide(w) ==
    /\ pc = "parallel_loop"
    /\ ~workers[w].done
    /\ workers[w].ci = inner_steps
    /\ LET out == Divided(w, denom)
       IN  /\ grad' = out[1]
           /\ jac' = out[2]
           /\ workers' =
                 [workers EXCEPT
                     ![w].written = @ \cup {w}
                         \cup Touched(grad, jac, out[1], out[2]),
                     ![w].done = TRUE]
    /\ UNCHANGED <<buildVars, sink, pc, inputVars, localVars, hess,
                   traceVars, utilVars>>

\* The end of the loop: every worker has finished.
parallel_return ==
    /\ pc = "parallel_loop"
    /\ \A w \in DOMAIN workers : workers[w].done
    /\ pc' = "parallel_returned"
    /\ UNCHANGED <<buildVars, contextVars, inputVars, localVars, outVars,
                   traceVars, utilVars>>

\* Targets with entries that differ from column to column and from row to
\* row.
RampMatrix(rows, cols) ==
    MatrixOf(rows, cols,
             [r \in 0..(rows - 1), c \in 0..(cols - 1) |-> Q(r + 2 * c - 1)])
ParallelTargets(n) ==
    {[kind |-> "quadratic", A |-> RampMatrix(n, n), b |-> b] :
        b \in BVectors(n)}
ParallelMaps(n) ==
    {[kind |-> "linear", A |-> RampMatrix(k, n)] : k \in 1..2}

InitParallel ==
    /\ ndebug = FALSE
    /\ impl = "switch"
    /\ \/ /\ op = "finite_gradient"
          /\ pc \in {"call_gradient", "call_parallel"}
          /\ \E n \in 0..MaxN :
                /\ target \in ParallelTargets(n)
                /\ x \in Points(n)
       \/ /\ op = "finite_jacobian"
          /\ pc \in {"call_jacobian", "call_parallel"}
          /\ \E n \in 0..MaxN :
                /\ target \in ParallelMaps(n)
                /\ x \in Points(n)
    /\ accuracy \in Orders
    /\ eps \in EpsVals
    /\ Idle

NextParallel ==
    \/ parallel_call
    \/ \E w \in 0..(Len(x) - 1) : worker_step(w)
    \/ \E w \in 0..(Len(x) - 1) : worker_divide(w)
    \/ parallel_return
    \/ finite_gradient_call
    \/ finite_gradient_step
    \/ finite_gradient_divide
    \/ finite_gradient_return
    \/ finite_jacobian_call
    \/ finite_jacobian_step
    \/ finite_jacobian_divide
    \/ finite_jacobian_return

SpecParallel == InitParallel /\ [][NextParallel]_vars

\* Column k of the output of the loop over the coordinates: the stencil of
\* order a of each component of f along coordinate k.
StencilColumn(k, a) ==
    IF op = "finite_gradient"
    THEN LET F(u) == Eval(target, u)
         IN  [r \in {0} |-> Stencil1D(F, x, k, a)]
    ELSE [r \in 0..(Len(Eval(target, x)) - 1) |->
             LET F(u) == Eval(target, u)[r + 1]
             IN  Stencil1D(F, x, k, a)]

\* C23: with the iterations of the loop over the coordinates run by
\* parallel workers, each on its own working copy, under every
\* interleaving the output returned is the output of the sequential loop,
\* no entry or column is written by two workers (worker w writes entry or
\* column w alone), and every point a worker evaluates the target at is x
\* moved in the worker's own coordinate alone.
C23_ParallelWorkers ==
    /\ pc \in {"parallel_loop", "parallel_returned"}
          => \A w \in DOMAIN workers :
                /\ workers[w].written \subseteq {w}
                /\ \A v \in (DOMAIN workers) \ {w} :
                      workers[w].written \cap workers[v].written = {}
                /\ workers[w].x_mutable = x
                /\ \A m \in 1..Len(workers[w].evaluated) :
                      /\ workers[w].evaluated[m] =
                            Moved(x, w, Q(TableInner(accuracy)[m]))
                      /\ \A k \in 0..(Len(x) - 1) :
                            k # w => workers[w].evaluated[m][k + 1] = x[k + 1]
    /\ pc \in {"parallel_returned", "gradient_returned", "jacobian_returned"}
          => \A k \in 0..(Len(x) - 1) :
                OutputColumn(grad, jac, k) = StencilColumn(k, accuracy)

\* The workers of the first and of the last coordinate are both in the
\* middle of their stencils, each having written its own column alone, and
\* the latest evaluation was the last worker's.
C23_Witness ==
    /\ pc = "parallel_loop"
    /\ op = "finite_jacobian"
    /\ accuracy = FOURTH
    /\ Len(x) = MaxN
    /\ MaxN >= 2
    /\ workers[0].ci = 1
    /\ workers[MaxN - 1].ci = 2
    /\ workers[0].written = {0}
    /\ workers[MaxN - 1].written = {MaxN - 1}
    /\ point = workers[MaxN - 1].evaluated[2]
    /\ point[MaxN] # x[MaxN]
    /\ OutputColumn(grad, jac, 0) # OutputColumn(grad, jac, MaxN - 1)

(***************************************************************************)
(* The comparison routines called with containers of the same shape, with  *)
(* a logger that records the debug records and with one that discards      *)
(* them.                                                                   *)
(***************************************************************************)
InitDiagnostics ==
    /\ ndebug \in BOOLEAN
    /\ impl = "switch"
    /\ pc = "call_compare"
    /\ \/ /\ op = "compare_gradient"
          /\ \E n \in 0..MaxDim :
                /\ cx \in [1..n -> CmpVals]
                /\ cy \in [1..n -> CmpVals]
       \/ /\ op \in {"compare_jacobian", "compare_hessian"}
          /\ \E r1 \in 0..MaxDim, c1 \in 0..MaxDim :
                /\ cx \in CmpFirst(r1, c1)
                /\ cy \in CmpSecond(r1, c1)
    /\ test_eps \in TestEpsVals
    /\ sink \in {"records", "discards"}
    /\ target = None /\ x = None /\ accuracy = None /\ eps = None
    /\ external_coeffs = None /\ internal_coeffs = None
    /\ inner_steps = None /\ denom = None /\ x_mutable = None
    /\ i = None /\ j = None /\ ci = None /\ cj = None
    /\ grad = <<>> /\ jac = None /\ hess = None
    /\ nevals = 0 /\ point = None /\ errors = <<>> /\ workers = None
    /\ tensor_order = None /\ prior = None
    /\ same = None /\ log = <<>> /\ ncompared = 0
    /\ X = None /\ flat = None /\ dim = None /\ R = None /\ writes = None

SpecDiagnostics == InitDiagnostics /\ [][NextCompare]_vars

\* The elements of the first container, as <<row, column>>.
Elements ==
    IF op = "compare_gradient"
    THEN {<<r, 0>> : r \in 0..(Len(cx) - 1)}
    ELSE {<<r, c>> : r \in 0..(cx.rows - 1), c \in 0..(cx.cols - 1)}
\* The element e of a container.
ElementOf(U, e) ==
    IF op = "compare_gradient" THEN U[e[1] + 1] ELSE At(U, e[1], e[2])
\* The records emitted for the element e.
RecordsOf(e) == {m \in 1..Len(log) : log[m].r = e[1] /\ log[m].c = e[2]}

\* C24: for containers of the same shape the comparison visits every
\* element, also after a mismatch; it emits exactly one record for each
\* element outside the tolerance, with the element's index and values, and
\* none for an element within it; it returns false if and only if it
\* emitted a record; and this is so with a logger that records and with
\* one that discards.
C24_OneRecordPerMismatch ==
    (pc # "call_compare" /\ SameShape)
       => /\ pc = "compare_returned"
          /\ ncompared = Cardinality(Elements)
          /\ \A e \in Elements :
                /\ Cardinality(RecordsOf(e)) =
                      IF Within(ElementOf(cx, e), ElementOf(cy, e), test_eps)
                      THEN 0 ELSE 1
                /\ \A m \in RecordsOf(e) :
                      /\ log[m].x = ElementOf(cx, e)
                      /\ log[m].y = ElementOf(cy, e)
          /\ \A m \in 1..Len(log) : <<log[m].r, log[m].c>> \in Elements
          /\ \A m \in 1..(Len(log) - 1) :
                \/ log[m].r < log[m + 1].r
                \/ log[m].r = log[m + 1].r /\ log[m].c < log[m + 1].c
          /\ (same = FALSE) = (Len(log) > 0)
          /\ spdlog_debug(log) = IF sink = "records" THEN log ELSE <<>>

\* compare_gradient returned false with a logger that discards: the first
\* and the last element are outside the tolerance and both have their
\* record, an element between them is within it.
C24_Witness ==
    /\ pc = "compare_returned"
    /\ op = "compare_gradient"
    /\ sink = "discards"
    /\ Len(cx) = MaxDim
    /\ Len(cy) = MaxDim
    /\ MaxDim >= 2
    /\ same = FALSE
    /\ Len(log) = 2
    /\ log[1].r = 0
    /\ log[2].r = MaxDim - 1
    /\ ncompared = MaxDim

(***************************************************************************)
(* The engines called with an accuracy order inside or outside the         *)
(* enumeration, and with an output argument that already has a size and a  *)
(* content.                                                                *)
(***************************************************************************)
InitInvalid ==
    /\ ndebug = FALSE
    /\ tensor_order = None
    /\ accuracy \in {SECOND, InvalidOrder}
    /\ eps \in EpsVals
    /\ IdleLocals
    /\ \/ /\ impl \in {"switch", "array"}
          /\ op = "finite_gradient"
          /\ pc = "call_gradient"
          /\ \E n \in 0..MaxN :
                /\ x \in Points(n)
                /\ target \in ParallelTargets(n)
          /\ prior \in PriorVectors
          /\ grad = prior /\ jac = None /\ hess = None
       \/ /\ impl = "switch"
          /\ op = "finite_jacobian"
          /\ pc = "call_jacobian"
          /\ \E n \in 0..MaxN :
                /\ x \in Points(n)
                /\ target \in ParallelMaps(n)
          /\ prior \in PriorMatrices
          /\ grad = <<>> /\ jac = prior /\ hess = None
       \/ /\ impl = "switch"
          /\ op = "finite_hessian"
          /\ pc = "call_hessian"
          /\ \E n \in 0..MaxN :
                /\ x \in Points(n)
                /\ target \in ParallelTargets(n)
          /\ prior \in PriorMatrices
          /\ grad = <<>> /\ jac = None /\ hess = prior

NextInvalid ==
    \/ finite_gradient_call
    \/ finite_gradient_step
    \/ finite_gradient_divide
    \/ finite_gradient_return
    \/ finite_gradient_array_call
    \/ finite_gradient_array_undefined
    \/ finite_gradient_array_step
    \/ finite_gradient_array_divide
    \/ finite_gradient_array_return
    \/ finite_jacobian_call
    \/ finite_jacobian_step
    \/ finite_jacobian_divide
    \/ finite_jacobian_return
    \/ finite_hessian_call
    \/ finite_hessian_step
    \/ finite_hessian_divide
    \/ finite_hessian_return

SpecInvalid == InitInvalid /\ [][NextInvalid]_vars

\* The output argument of the routine called.
OutputArgument ==
    CASE op = "finite_gradient" -> grad
      [] op = "finite_jacobian" -> jac
      [] op = "finite_hessian" -> hess

\* C25: with an accuracy order outside the enumeration finite_gradient,
\* finite_jacobian and finite_hessian fail with "invalid accuracy order"
\* before the target is evaluated (the shape probe of the Jacobian
\* included) and before the output argument is sized or written: the
\* output argument has its prior size and content.
C25_InvalidOrderLeavesOutput ==
    (accuracy \notin AccuracyOrder
        /\ pc \notin {"call_gradient", "call_jacobian", "call_hessian"})
       => /\ pc = "invalid_argument"
          /\ nevals = 0
          /\ OutputArgument = prior

\* The pair after (r, c) in the loops over i and j >= i of n coordinates.
NextPair(r, c, n) == IF c + 1 < n THEN <<r, c + 1>> ELSE <<r + 1, r + 1>>
\* A step of finite_hessian inside its loops.
HessianPairStep ==
    (op = "finite_hessian" /\ pc = "hessian_loop")
       => LET n == Len(x)
              s == TableLength(accuracy)
              d == RMul(Q(TableDenominator(accuracy)), eps)
          IN  /\ \A r \in 0..(n - 1), c \in 0..(n - 1) :
                    /\ At(hess', r, c) # At(hess, r, c)
                          => \/ <<r, c>> = <<i, j>>
                             \/ <<r, c>> = <<j, i>> /\ <<i, j>>' # <<i, j>>
                    /\ (r <= c /\ PairDone(r, c))
                          => /\ At(hess', r, c) = At(hess, r, c)
                             /\ At(hess', c, r) = At(hess, c, r)
              /\ nevals' = nevals + 1
                    => /\ i <= j
                       /\ <<i, j>>' = <<i, j>>
              /\ <<i, j>>' # <<i, j>>
                    => /\ i <= j
                       /\ ci = s
                       /\ nevals' = nevals
                       /\ At(hess', i, j) = RDiv(At(hess, i, j), RMul(d, d))
                       /\ At(hess', j, i) = At(hess', i, j)
                       /\ <<i, j>>' = NextPair(i, j, n)

\* C26: finite_hessian processes every unordered pair of coordinates once:
\* the pairs are visited in order, each with i <= j; a step writes
\* hess(i, j) of the pair the loop is at and nothing else; leaving the
\* pair divides hess(i, j) by (denominator * eps)^2 and copies it to
\* hess(j, i); and neither entry of a pair that is done is written again.
C26_PairOnce ==
    /\ [][HessianPairStep]_vars
    /\ []((op = "finite_hessian" /\ pc = "hessian_loop")
            => /\ i <= Len(x)
               /\ i < Len(x) => (i <= j /\ j < Len(x))
               /\ (nevals = 0 /\ Len(x) > 0) => <<i, j>> = <<0, 0>>)
    /\ []((op = "finite_hessian" /\ pc = "hessian_returned") => i = Len(x))

\* finite_hessian is in the middle of its last pair, and the pair of the
\* first and the last coordinate is done: a nonzero hess(0, n - 1) with its
\* copy below the diagonal.
C26_Witness ==
    /\ op = "finite_hessian"
    /\ pc = "hessian_loop"
    /\ accuracy = FOURTH
    /\ Len(x) = MaxN
    /\ MaxN >= 2
    /\ i = MaxN - 1
    /\ j = MaxN - 1
    /\ ci = 2
    /\ cj = 1
    /\ PairDone(0, MaxN - 1)
    /\ At(hess, 0, MaxN - 1) # Zero
    /\ At(hess, MaxN - 1, 0) = At(hess, 0, MaxN - 1)

\* The call of the same routine with the two containers exchanged.
Exchanged ==
    CASE op = "compare_gradient" -> compare_gradient(cy, cx, test_eps, Zero)
      [] op = "compare_jacobian" -> compare_jacobian(cy, cx, test_eps, Zero)
      [] op = "compare_hessian" -> compare_hessian(cy, cx, test_eps, Zero)

\* C27: for containers of the same shape and every tolerance the
\* comparison of x with y and the comparison of y with x return the same
\* boolean, and report the same elements.
C27_CompareSymmetric ==
    (pc # "call_compare" /\ SameShape)
       => /\ pc = "compare_" \o Exchanged.status
          /\ same = Exchanged.same
          /\ ncompared = Exchanged.ncompared
          /\ Len(log) = Len(Exchanged.log)
          /\ \A m \in 1..Len(log) :
                /\ log[m].r = Exchanged.log[m].r
                /\ log[m].c = Exchanged.log[m].c
                /\ log[m].x = Exchanged.log[m].y
                /\ log[m].y = Exchanged.log[m].x

\* A comparison returned true for containers with an element pair whose
\* second value is the larger in magnitude and which the scale of the
\* first value alone would reject.
C27_Witness ==
    /\ pc = "compare_returned"
    /\ op = "compare_jacobian"
    /\ SameShape
    /\ cx.rows = MaxDim
    /\ cx.cols = MaxDim
    /\ MaxDim >= 1
    /\ same = TRUE
    /\ Exchanged.same = TRUE
    /\ \E p \in ElementPairs :
          /\ RGt(RAbs(p[2]), RAbs(p[1]))
          /\ RGt(RAbs(RSub(p[1], p[2])),
                 RMul(test_eps, RMax(RAbs(p[1]), One)))

(***************************************************************************)
(* The round trip from a vector: flatten(unflatten(v, dim)), for a dim     *)
(* that divides the length of v.  The caller keeps v in cx.                *)
(***************************************************************************)
\* The caller passes unflatten's result to flatten.
pass_to_flatten ==
    /\ pc = "unflatten_returned"
    /\ X' = R
    /\ pc' = "call_flatten"
    /\ UNCHANGED <<buildVars, contextVars, inputVars, localVars, outVars,
                   traceVars, cmpVars, flat, dim, R, writes>>

InitInverse ==
    /\ ndebug \in BOOLEAN
    /\ impl = "switch"
    /\ op = "unflatten"
    /\ pc = "call_unflatten"
    /\ flat \in FlatVectors
    /\ dim \in 1..MaxDim
    /\ Len(flat) % dim = 0
    /\ cx = flat
    /\ X = None /\ R = None /\ writes = None
    /\ target = None /\ x = None /\ accuracy = None /\ eps = None
    /\ external_coeffs = None /\ internal_coeffs = None
    /\ inner_steps = None /\ denom = None /\ x_mutable = None
    /\ i = None /\ j = None /\ ci = None /\ cj = None
    /\ grad = <<>> /\ jac = None /\ hess = None
    /\ nevals = 0 /\ point = None /\ errors = <<>>
    /\ workers = None /\ sink = "discards"
    /\ tensor_order = None /\ prior = None
    /\ cy = None /\ test_eps = None
    /\ same = None /\ log = <<>> /\ ncompared = 0

NextInverse ==
    \/ unflatten_call
    \/ unflatten_step
    \/ unflatten_return
    \/ pass_to_flatten
    \/ flatten_call
    \/ flatten_step
    \/ flatten_next_row
    \/ flatten_return

SpecInverse == InitInverse /\ [][NextInverse]_vars

\* C28: for every vector v and every dim >= 1 that divides its length,
\* unflatten(v, dim) is a (length / dim) x dim matrix with every entry
\* written once, and flatten of it is v, entry for entry: with the round
\* trip from a matrix the two are inverse to each other.
C28_InverseRoundTrip ==
    /\ pc \in {"unflatten_returned", "call_flatten", "flatten_loop",
               "flatten_returned"}
          => /\ R.rows * dim = Len(cx)
             /\ R.cols = dim
             /\ \A k \in 0..(Len(cx) - 1) :
                   At(R, k \div dim, k % dim) = cx[k + 1]
    /\ pc = "unflatten_returned"
          => \A k \in 1..Len(writes) : writes[k] = 1
    /\ pc = "flatten_returned"
          => /\ X = R
             /\ flat = cx
             /\ \A k \in 1..Len(writes) : writes[k] = 1

\* The round trip of a vector through a matrix of at least two rows and
\* two columns has returned; the entries that land at (0, 1) and at (1, 0)
\* differ.
C28_Witness ==
    /\ pc = "flatten_returned"
    /\ dim >= 2
    /\ R.rows >= 2
    /\ cx[2] # cx[dim + 1]
    /\ At(X, 0, 1) = cx[2]
    /\ At(X, 1, 0) = cx[dim + 1]
    /\ flat[2] = cx[2]
    /\ flat[dim + 1] = cx[dim + 1]

==========================================================================
